---- MODULE Spec2Model ----
(***************************************************************************)
(* A model of the OpenCodeCLI agentic tool-calling loop:                   *)
(*   ToolExecutor (tools.ts), LLMClient (llm-client.ts), Agent (agent).    *)
(* JavaScript strings whose characters matter (commands, prompt answers,   *)
(* file contents, edit texts) are sequences of one-character strings.      *)
(* An optional value (a property that may be undefined) is a sequence of   *)
(* length 0 (undefined) or 1 (the value).                                  *)
(***************************************************************************)
EXTENDS Integers, Sequences, FiniteSets, TLC

VARIABLES
    \* ToolExecutor fields (tools.ts:219-224) and the audit module's path
    autoApproveCommands, dryRun, allowlistCommands, pluginHandlers, auditPath,
    \* the ambient workspace: file contents by path
    files,
    \* every externally visible effect, in the order it happened
    effects,
    \* the number of ToolExecutor.execute calls made so far
    calls,
    \* the latest execute call: the call, the workspace it started from and
    \* how it settled
    last,
    \* LLMClient: config.retries, the loop variable of chat, where the call
    \* stands, how every attempt ended, every backoff wait, what chat settled with
    maxRetries, attempt, clientPc, attemptLog, waits, clientResult,
    \* Agent: this.history, where chat stands, the loop variable of chat, the
    \* index of the next tool call of the step, the index of the turn's user
    \* message, the transport requests of the turn, what chat settled with
    history, agentPc, currentStep, toolIdx, turnStart, requests, chatResult,
    \* parseStreamResponse: the bytes the endpoint sends and how many have
    \* arrived, then buffer, content (streamContent), toolCallsAccum, every onChunk call, where
    \* the promise stands and what it resolved with
    wire, pos, buffer, streamContent, toolCallsAccum, sink, streamPc, streamResult,
    \* parseStreamResponse fed with the same chunks without the malformed
    \* lines of the stream: its buffer, content, toolCallsAccum and onChunk calls
    plain,
    \* grep_search: the workspace tree and the arguments of the call, where the
    \* call stands and what it returned
    grep,
    \* session persistence: the --session option, the session file, where the
    \* process stands, the latest command and how it ended
    session,
    \* /agent and runSubAgent: the process options, the chosen SubAgent, steps,
    \* the requests sent, the tool calls of the response still to execute, the
    \* tool calls executed, where the run stands and what it returned
    sub,
    \* the REPL: lastUserInput, lastInputFailed, the pending line handlers that
    \* called agent.chat, which chat call pushed each message of the history,
    \* the number of input lines read
    lastUserInput, lastInputFailed, tasks, owner, replLines

execVars == <<autoApproveCommands, dryRun, allowlistCommands, pluginHandlers,
              auditPath, files, effects, calls, last>>

clientVars == <<maxRetries, attempt, clientPc, attemptLog, waits, clientResult>>

agentVars == <<history, agentPc, currentStep, toolIdx, turnStart, requests, chatResult>>

streamVars == <<wire, pos, buffer, streamContent, toolCallsAccum, sink, streamPc,
                streamResult, plain>>

replVars == <<lastUserInput, lastInputFailed, tasks, owner, replLines>>

grepVars == <<grep>>

sessionVars == <<session>>

subVars == <<sub>>

vars == <<execVars, clientVars, agentVars, streamVars, replVars, grepVars, sessionVars, subVars>>

----------------------------------------------------------------------------
(* Bounds of the model *)

\* number of execute calls on one ToolExecutor
MaxCalls == 2
\* number of REPL commands of a session (/save, /load, a chat turn)
MaxSessionCommands == 4
\* largest maxSteps of a sub-agent
MaxSubSteps == 2
\* longest file content drawn for the edit_file specification
MaxLen == 3
\* number of edit_file calls in the edit_file specification
MaxEdits == 1
\* largest configured config.retries
MaxRetries == 3
\* a chat turn starts only while the history is at most this long
MaxStartLen == 3
\* largest positional index of a streamed tool-call delta
MaxIndex == 1
\* largest config.retries when the backoff waits are checked
MaxBackoffRetries == 5
\* largest number of lines in a streamed response
MaxEvents == 3
\* number of chat calls the REPL makes in one session
MaxTasks == 2
\* number of input lines of one REPL session
MaxReplLines == 3
\* the transport asks for tools only while the history is shorter than this
\* the lines of a file in which every line matches
ManyLines == 30

\* the endpoint streams tool calls only in the first steps of a turn
MaxToolSteps == 2

MaxReplHistory == 6

----------------------------------------------------------------------------
(* JavaScript string operations on character sequences *)

None == <<>>
Some(v) == <<v>>

\* String.prototype.toLowerCase, on the letters the model uses
toLowerCaseChar(c) ==
    CASE c = "G" -> "g" [] c = "I" -> "i" [] c = "T" -> "t"
      [] c = "Y" -> "y" [] c = "N" -> "n" [] c = "R" -> "r"
      [] c = "M" -> "m" [] OTHER -> c

toLowerCase(s) == [i \in 1..Len(s) |-> toLowerCaseChar(s[i])]

isSpace(c) == c = " "

RECURSIVE trimStart(_)
trimStart(s) ==
    IF s # <<>> /\ isSpace(Head(s)) THEN trimStart(Tail(s)) ELSE s

RECURSIVE trimEnd(_)
trimEnd(s) ==
    IF s # <<>> /\ isSpace(s[Len(s)]) THEN trimEnd(SubSeq(s, 1, Len(s) - 1)) ELSE s

\* String.prototype.trim
trim(s) == trimEnd(trimStart(s))

\* s.split(/\s+/)[0] || '' : the characters before the first whitespace
RECURSIVE firstToken(_)
firstToken(s) ==
    IF s = <<>> \/ isSpace(Head(s)) THEN <<>>
    ELSE <<Head(s)>> \o firstToken(Tail(s))

\* the first 1-based position at or after `from` where t occurs in s, 0 if none
RECURSIVE indexOfFrom(_, _, _)
indexOfFrom(s, t, from) ==
    IF from + Len(t) - 1 > Len(s) THEN 0
    ELSE IF SubSeq(s, from, from + Len(t) - 1) = t THEN from
    ELSE indexOfFrom(s, t, from + 1)

\* a test that only asks whether every character of t occurs in s
includesChars(s, t) == \A i \in 1..Len(t) : \E j \in 1..Len(s) : s[j] = t[i]

RECURSIVE concat(_)
concat(strs) == IF strs = <<>> THEN <<>> ELSE Head(strs) \o concat(Tail(strs))

\* String.prototype.includes
includes(s, t) == indexOfFrom(s, t, 1) # 0

\* s.split(t).length for a non-empty separator: pieces between the
\* non-overlapping occurrences found left to right
RECURSIVE splitLength(_, _, _)
splitLength(s, t, from) ==
    LET i == indexOfFrom(s, t, from)
    IN  IF i = 0 THEN 1 ELSE 1 + splitLength(s, t, i + Len(t))

\* the replacement text of String.prototype.replace: "$$" is "$", "$&" is the
\* matched text, every other character stands for itself
RECURSIVE expandReplacement(_, _)
expandReplacement(newText, matched) ==
    IF newText = <<>> THEN <<>>
    ELSE IF Len(newText) >= 2 /\ newText[1] = "$" /\ newText[2] = "$"
         THEN <<"$">> \o expandReplacement(SubSeq(newText, 3, Len(newText)), matched)
    ELSE IF Len(newText) >= 2 /\ newText[1] = "$" /\ newText[2] = "&"
         THEN matched \o expandReplacement(SubSeq(newText, 3, Len(newText)), matched)
    ELSE <<Head(newText)>> \o expandReplacement(Tail(newText), matched)

\* String.prototype.replace(pattern: string, replacement: string): the FIRST
\* occurrence only
replaceFirst(s, t, newText) ==
    LET i == indexOfFrom(s, t, 1)
    IN  IF i = 0 THEN s
        ELSE SubSeq(s, 1, i - 1) \o expandReplacement(newText, t)
             \o SubSeq(s, i + Len(t), Len(s))

\* String(undefined), what a missing replacement text is coerced to
undefinedText == <<"u", "n", "d", "e", "f", "i", "n", "e", "d">>

----------------------------------------------------------------------------
(* Values exchanged with ToolExecutor *)

\* ToolResult.content: always one of the message templates of tools.ts, with
\* the number and the text the template interpolates
Msg(m) == [msg |-> m, n |-> 0, text |-> <<>>]
MsgN(m, k) == [msg |-> m, n |-> k, text |-> <<>>]
MsgText(m, t) == [msg |-> m, n |-> 0, text |-> t]

\* one observable effect; callNo is filled in by the action that runs the call
Effect(kind, tag, text) == [callNo |-> 0, kind |-> kind, tag |-> tag, text |-> text]

\* what a private method hands back to execute: a returned output or a
\* thrown value ("Error": an Error object; "NonError": a thrown value without
\* a message property; "Nullish": thrown null or undefined)
Returned(output, fs, eff) ==
    [threw |-> "none", output |-> output, files |-> fs, effects |-> eff]
Thrown(kind, fs, eff) ==
    [threw |-> kind, output |-> Msg(""), files |-> fs, effects |-> eff]

\* the text of call.function.arguments, by what JSON.parse makes of it:
\* "invalid" (not JSON), "null", "scalar" (a number or string), "object"
NoArgs(json) ==
    [json |-> json, path |-> None, content |-> None, command |-> None,
     old_text |-> None, new_text |-> None, paths |-> None, message |-> None]

\* JSON.parse(call.function.arguments)
JSONparse(arguments) ==
    IF arguments.json = "invalid" THEN [threw |-> TRUE, value |-> arguments]
    ELSE [threw |-> FALSE, value |-> arguments]

\* args.<field> on the parsed value: undefined on a scalar
prop(args, field) == IF args.json = "object" THEN args[field] ELSE None

ToolCall(id, name, arguments) ==
    [id |-> id, function |-> [name |-> name, arguments |-> arguments]]

----------------------------------------------------------------------------
(* ToolExecutor *)

Paths == {"f", "g"}

\* new Set(allowlistCommands.map(c => c.toLowerCase().trim()))
allowlistSet(raw) == {trim(toLowerCase(raw[i])) : i \in 1..Len(raw)}

\* audit.ts auditLog: nothing without a configured path; otherwise one append
\* to the sink, whose failure is swallowed. auditPath is TRUE when a path is set
auditLog(kind, env) ==
    IF ~auditPath THEN <<>>
    ELSE <<Effect("audit", kind,
                  IF env.auditFails THEN <<"append failed">> ELSE <<"appended">>)>>

writeFile(filePath, content, env) ==
    IF filePath = None \/ content = None \/ env.io = "fail"
    THEN Thrown("Error", files, <<>>)
    ELSE Returned(Msg("Successfully wrote to ${filePath}"),
                  [files EXCEPT ![filePath[1]] = content],
                  <<Effect("write", filePath[1], content[1])>>)

\* a read that consumes the file it returns
readFileOnce(filePath, env) ==
    IF filePath = None THEN Thrown("Error", files, <<>>)
    ELSE IF files[filePath[1]] = None \/ env.io = "fail"
    THEN Thrown("Error", files, <<>>)
    ELSE Returned(MsgText("${content}", files[filePath[1]][1]),
                  [files EXCEPT ![filePath[1]] = None], <<>>)

readFile(filePath, env) ==
    IF filePath = None THEN Thrown("Error", files, <<>>)
    ELSE IF files[filePath[1]] = None \/ env.io = "fail"
    THEN Thrown("Error", files, <<>>)
    ELSE Returned(MsgText("${content}", files[filePath[1]][1]), files, <<>>)

\* mutant of cmdBase: the base token is compared without lower-casing
cmdBaseCaseSensitive(command) == firstToken(trim(command))

\* (command.trim().split(/\s+/)[0] || '').toLowerCase()
cmdBase(command) == toLowerCase(firstToken(trim(command)))

isAllowlisted(command) ==
    allowlistCommands # {} /\ cmdBase(command) \in allowlistCommands

\* mutant of shouldAutoApprove: --yes approves whatever the allowlist says
shouldAutoApproveIgnoringAllowlist(command) == autoApproveCommands

shouldAutoApprove(command) ==
    autoApproveCommands /\ (allowlistCommands = {} \/ isAllowlisted(command))

\* mutant of answerApproves: any answer that begins with y approves
answerApprovesPrefix(answer) == answer # <<>> /\ toLowerCase(answer)[1] = "y"

\* answer.toLowerCase() !== 'y' is the denial test
answerApproves(answer) == toLowerCase(answer) = <<"y">>

\* execAsync(command): the shell runs the command; a failing command is
\* reported as text
execCommand(command, env) ==
    Returned(IF env.io = "ok"
             THEN MsgText("${stdout}", command)
             ELSE MsgText("Command failed: ${e.message}", command),
             files, <<Effect("shell", "exec", command)>>)

\* execAsync(command) hands the whole string to the shell, which runs the
\* commands of a ';' list one after the other
RECURSIVE shellCommands(_)
shellCommands(command) ==
    LET i == indexOfFrom(command, <<";">>, 1)
    IN  IF i = 0 THEN <<command>>
        ELSE <<SubSeq(command, 1, i - 1)>> \o shellCommands(SubSeq(command, i + 1, Len(command)))

\* the programs the shell starts for the command string
programsRun(command) ==
    {firstToken(trim(shellCommands(command)[i])) : i \in 1..Len(shellCommands(command))} \ {<<>>}

runCommand(command, env) ==
    IF command = None THEN Thrown("Error", files, <<>>)
    ELSE IF shouldAutoApprove(command[1]) THEN execCommand(command[1], env)
    ELSE IF autoApproveCommands /\ allowlistCommands # {} /\ ~isAllowlisted(command[1])
    THEN Returned(MsgText("Command ${cmdBase} not in allowlist. Use --allow to add.",
                          cmdBase(command[1])), files, <<>>)
    ELSE LET asked == <<Effect("prompt", "Allow? (y/n): ", env.answer)>>
         IN  IF ~answerApproves(env.answer)
             THEN Returned(Msg("User denied command execution."), files, asked)
             ELSE LET ran == execCommand(command[1], env)
                  IN  [ran EXCEPT !.effects = asked \o ran.effects]

gitStatus(env) ==
    Returned(IF env.io = "ok" THEN Msg("${stdout}")
             ELSE Msg("Not a git repo or error: ${e.message}"),
             files, <<Effect("shell", "git", <<"g", "i", "t", " ", "s", "t", "a", "t", "u", "s">>)>>)

\* content.split(oldText).length - 1
occurrences(content, oldText) ==
    IF oldText = <<>> THEN Len(content) - 1
    ELSE splitLength(content, oldText, 1) - 1

editFile(filePath, oldText, newText, env) ==
    IF filePath = None THEN Thrown("Error", files, <<>>)
    ELSE IF files[filePath[1]] = None \/ env.io = "fail"
    THEN Returned(Msg("Error editing file: ${e.message}"), files, <<>>)
    ELSE LET content == files[filePath[1]][1]
         IN  IF oldText = None \/ ~includes(content, oldText[1])
             THEN Returned(Msg("Error: Could not find the specified text in ${filePath}. Make sure to use exact matching text."),
                           files, <<>>)
             ELSE LET newContent == replaceFirst(content, oldText[1],
                                       IF newText = None THEN undefinedText ELSE newText[1])
                  IN  Returned(MsgN("Successfully edited ${filePath}. Replaced ${occurrences} occurrence(s).",
                                    occurrences(content, oldText[1])),
                               [files EXCEPT ![filePath[1]] = Some(newContent)],
                               <<Effect("write", filePath[1], newContent)>>)

\* fs.readdir(fullPath): a directory that cannot be read throws
listFiles(env) ==
    IF env.io = "fail" THEN Thrown("Error", files, <<>>)
    ELSE Returned(Msg("${files.join}"), files, <<>>)

gitDiff(env) ==
    Returned(IF env.io = "ok" THEN Msg("${stdout}") ELSE Msg("Error: ${e.message}"),
             files, <<Effect("shell", "git", <<"g", "i", "t", " ", "d", "i", "f", "f">>)>>)

\* paths.trim() throws on a missing paths argument, before git is run
gitAdd(paths, env) ==
    IF paths = None THEN Thrown("Error", files, <<>>)
    ELSE Returned(IF env.io = "ok" THEN Msg("Staged.") ELSE Msg("Error: ${e.message}"),
                  files, <<Effect("git", "add", paths[1])>>)

\* execFile rejects an argument list that holds undefined, inside the try
gitCommit(message, env) ==
    IF message = None THEN Returned(Msg("Error: ${e.message}"), files, <<>>)
    ELSE Returned(IF env.io = "ok" THEN Msg("Committed.") ELSE Msg("Error: ${e.message}"),
                  files, <<Effect("git", "commit", message[1])>>)

\* every action but 'pop' is a stash push
gitStash(message, env) ==
    Returned(IF env.io = "ok" THEN Msg("Done.") ELSE Msg("Error: ${e.message}"),
             files, <<Effect("git", "stash", IF message = None THEN <<>> ELSE message[1])>>)

\* the search itself is grepSearch below; here only that it reads
grepTool(env) == Returned(Msg("${results.join}"), files, <<>>)

\* resolvePath throws on a missing path, before the try block
createDirectory(dirPath, env) ==
    IF dirPath = None THEN Thrown("Error", files, <<>>)
    ELSE IF env.io = "fail"
    THEN Returned(Msg("Error creating directory: ${e.message}"), files, <<>>)
    ELSE Returned(Msg("Successfully created directory ${dirPath}"), files,
                  <<Effect("mkdir", dirPath[1], <<>>)>>)

WriteNames == {"write_file", "create_file", "file_write"}
ReadNames == {"read_file", "file_read"}
CommandNames == {"run_command", "shell", "bash"}
EditNames == {"edit_file", "patch_file"}
GitStatusNames == {"git_status"}
ListNames == {"list_files", "ls"}
GitChangeNames == {"git_add", "git_commit", "git_stash"}
GrepNames == {"grep_search", "search", "grep"}
MkdirNames == {"create_directory", "mkdir"}
\* read_file, list_files, grep_search, git_status, git_diff and their aliases
ReadOnlyNames == ReadNames \cup ListNames \cup GrepNames \cup GitStatusNames \cup {"git_diff"}
BuiltinNames ==
    WriteNames \cup ReadNames \cup CommandNames \cup EditNames \cup GitStatusNames
        \cup ListNames \cup {"git_diff"} \cup GitChangeNames \cup GrepNames \cup MkdirNames

\* the rest of the switch of execute (tools.ts:285-330)
dispatchMore(name, args, env) ==
    IF name \in ListNames THEN listFiles(env)
    ELSE IF name = "git_diff" THEN gitDiff(env)
    ELSE IF name = "git_add" THEN gitAdd(prop(args, "paths"), env)
    ELSE IF name = "git_commit" THEN gitCommit(prop(args, "message"), env)
    ELSE IF name = "git_stash" THEN gitStash(prop(args, "message"), env)
    ELSE IF name \in GrepNames THEN grepTool(env)
    ELSE createDirectory(prop(args, "path"), env)

\* a switch whose plugin lookup comes before the built-in cases
dispatchPluginFirst(name, args, env) ==
    IF name \in pluginHandlers
    THEN IF env.handler = "returns"
         THEN Returned(Msg("${handler output}"), files, <<Effect("handler", name, <<>>)>>)
         ELSE Thrown(env.handler, files, <<Effect("handler", name, <<>>)>>)
    ELSE IF name \in BuiltinNames /\ args.json = "null" THEN Thrown("Error", files, <<>>)
    ELSE IF name \in WriteNames THEN writeFile(prop(args, "path"), prop(args, "content"), env)
    ELSE IF name \in ReadNames THEN readFile(prop(args, "path"), env)
    ELSE IF name \in CommandNames THEN runCommand(prop(args, "command"), env)
    ELSE IF name \in GitStatusNames THEN gitStatus(env)
    ELSE IF name \in EditNames
    THEN editFile(prop(args, "path"), prop(args, "old_text"), prop(args, "new_text"), env)
    ELSE IF name \in BuiltinNames THEN dispatchMore(name, args, env)
    ELSE Returned(Msg("Unknown tool: ${name}"), files, <<>>)

\* the switch of execute (tools.ts:273-341); every built-in case reads a
\* property of args first, which throws a TypeError when args is null
dispatch(name, args, env) ==
    IF name \in BuiltinNames /\ args.json = "null" THEN Thrown("Error", files, <<>>)
    ELSE IF name \in WriteNames THEN writeFile(prop(args, "path"), prop(args, "content"), env)
    ELSE IF name \in ReadNames THEN readFile(prop(args, "path"), env)
    ELSE IF name \in CommandNames THEN runCommand(prop(args, "command"), env)
    ELSE IF name \in GitStatusNames THEN gitStatus(env)
    ELSE IF name \in EditNames
    THEN editFile(prop(args, "path"), prop(args, "old_text"), prop(args, "new_text"), env)
    ELSE IF name \in BuiltinNames THEN dispatchMore(name, args, env)
    ELSE IF name \in pluginHandlers
    THEN IF env.handler = "returns"
         THEN Returned(Msg("${handler output}"), files, <<Effect("handler", name, <<>>)>>)
         ELSE Thrown(env.handler, files, <<Effect("handler", name, <<>>)>>)
    ELSE Returned(Msg("Unknown tool: ${name}"), files, <<>>)

\* call.id || 'call_' + Math.random()...
callId(call, env) ==
    IF call.id # None /\ call.id[1] # "" THEN call.id[1] ELSE env.rand

Resolved(call, env, content, fs, eff) ==
    [settled |-> "resolved",
     result |-> [tool_call_id |-> callId(call, env), name |-> call.function.name,
                 content |-> content],
     files |-> fs, effects |-> eff]

\* the promise of execute rejects: no ToolResult reaches the caller
Rejected(call, env, fs, eff) ==
    [settled |-> "rejected",
     result |-> [tool_call_id |-> callId(call, env), name |-> call.function.name,
                 content |-> Msg("")],
     files |-> fs, effects |-> eff]

\* the catch block of execute (tools.ts:342-345): reading err.message of a
\* thrown null or undefined throws inside the catch block and leaves execute
CaughtError(call, env, d) ==
    IF d.threw = "Nullish" THEN Rejected(call, env, d.files, d.effects)
    ELSE Resolved(call, env, Msg("Error: ${err.message}"), d.files,
                  d.effects \o auditLog("error", env) \o auditLog("result", env))

\* mutant of execute: the dry-run short-circuit is missing
executeWithoutDryRun(call, env) ==
    LET name == call.function.name
        parsed == JSONparse(call.function.arguments)
    IN  IF parsed.threw
        THEN Resolved(call, env, Msg("Error parsing arguments: ${e}"), files, <<>>)
        ELSE LET d == dispatch(name, parsed.value, env)
             IN  IF d.threw = "none"
                 THEN Resolved(call, env, d.output, d.files,
                               d.effects \o auditLog("result", env))
                 ELSE CaughtError(call, env, d)

\* ToolExecutor.execute (tools.ts:239-354)
execute(call, env) ==
    LET name == call.function.name
        parsed == JSONparse(call.function.arguments)
    IN  IF parsed.threw
        THEN Resolved(call, env, Msg("Error parsing arguments: ${e}"), files, <<>>)
        ELSE IF dryRun
        THEN Resolved(call, env, Msg("[DRY-RUN] Would execute: ${name}(${JSON.stringify(args)})"),
                      files, auditLog("result", env))
        ELSE LET d == dispatch(name, parsed.value, env)
             IN  IF d.threw = "none"
                 THEN Resolved(call, env, d.output, d.files,
                               d.effects \o auditLog("result", env))
                 ELSE CaughtError(call, env, d)

----------------------------------------------------------------------------
(* Values of the components before they are used *)

NoMessage ==
    [role |-> "none", content |-> None, tool_calls |-> None, tool_call_id |-> None,
     name |-> None]

NoSettlement == [kind |-> "pending", value |-> None, cause |-> ""]

NoClientResult ==
    [kind |-> "pending", message |-> NoMessage, error |-> [name |-> "", message |-> <<>>]]

\* toolCallsAccum = {}: no index has an entry
NoEntry == [present |-> FALSE, nth |-> 0, id |-> None, name |-> None, args |-> <<>>]
NoAccum == [k \in 0..MaxIndex |-> NoEntry]

NoStreamResult == [role |-> "none", content |-> None, tool_calls |-> None]

\* no grep_search call
NoGrep ==
    [tree |-> <<>>, pattern |-> "x", searchPath |-> <<>>, recursive |-> FALSE,
     ignoreCase |-> FALSE, pc |-> "unused", output |-> [kind |-> "none", results |-> <<>>, limited |-> FALSE]]

\* no session command yet
NoSession ==
    [pc |-> "unused", sessionPath |-> FALSE, file |-> None, kind |-> "missing", command |-> "none",
     outcome |-> "none", before |-> <<>>, saved |-> None, commands |-> 0]

\* no /agent command yet
NoSub ==
    [pc |-> "unused", options |-> [autoApprove |-> FALSE, dryRun |-> FALSE, allowCommands |-> {}],
     agent |-> [tools |-> {}, maxSteps |-> 0], steps |-> 0, requests |-> <<>>,
     pending |-> <<>>, executed |-> <<>>, firstCall |-> 0, result |-> ""]

\* let content = '', toolCallsAccum = {}, buffer = '' and no onChunk call yet
NoPlain == [buffer |-> <<>>, content |-> <<>>, accum |-> NoAccum, sink |-> <<>>]

----------------------------------------------------------------------------
(* The inputs of execute *)

gitStatusCmd == <<"g", "i", "t", " ", "s", "t", "a", "t", "u", "s">>
GITStatusCmd == <<"G", "I", "T", " ", "s", "t", "a", "t", "u", "s">>
rmCmd == <<"r", "m", " ", "-", "r", "f", " ", "/">>
\* an allowlisted program followed by a second command: git status; rm -rf /
chainedCmd == gitStatusCmd \o <<";", " ">> \o rmCmd
Commands == {gitStatusCmd, GITStatusCmd, rmCmd, chainedCmd}

\* what the user types at the 'Allow? (y/n): ' prompt
Answers == {<<"y">>, <<"Y">>, <<"n">>, <<>>, <<"y", "e", "s">>}

\* --allow values handed to the constructor
AllowlistOptions == {<<>>, << <<"g", "i", "t">> >>, << <<" ", "G", "i", "t", " ">> >>}

\* a plugin handler resolves with text or throws any JavaScript value
HandlerBehaviours == {"returns", "Error", "NonError", "Nullish"}

CommandArgs(c) == [NoArgs("object") EXCEPT !.command = Some(c)]
WriteArgs(p, c) == [NoArgs("object") EXCEPT !.path = Some(p), !.content = Some(c)]
PathArgs(p) == [NoArgs("object") EXCEPT !.path = Some(p)]
EditArgs(p, o, n) ==
    [NoArgs("object") EXCEPT !.path = Some(p), !.old_text = Some(o), !.new_text = Some(n)]

ExecCalls ==
    {ToolCall(Some("c1"), "run_command", CommandArgs(c)) : c \in Commands}
    \cup {ToolCall(Some("c1"), "bash", CommandArgs(gitStatusCmd))}
    \cup {ToolCall(Some("c2"), "run_command", NoArgs(j)) :
            j \in {"object", "null", "scalar", "invalid"}}
    \cup {ToolCall(Some("c3"), n, WriteArgs("g", <<"b">>)) : n \in {"write_file", "create_file"}}
    \cup {ToolCall(Some("c3"), "write_file", PathArgs("g"))}
    \cup {ToolCall(None, "read_file", PathArgs(p)) : p \in Paths}
    \cup {ToolCall(Some("c4"), "edit_file", EditArgs("f", <<"a">>, <<"b">>))}
    \cup {ToolCall(Some(""), "git_status", NoArgs("object"))}
    \cup {ToolCall(Some("c5"), n, NoArgs(j)) :
            n \in {"my_plugin", "no_such_tool"}, j \in {"object", "null"}}
    \cup {ToolCall(Some("c6"), n, PathArgs("g")) :
            n \in {"create_directory", "mkdir", "ls", "grep", "My_Plugin"}}
    \cup {ToolCall(Some("c7"), n,
                    [NoArgs("object") EXCEPT !.paths = Some(<<"g">>), !.message = Some(<<"m">>)]) :
            n \in {"git_diff"} \cup GitChangeNames}
    \cup {ToolCall(Some("c7"), "git_add", NoArgs("object"))}

DefaultEnv ==
    [answer |-> <<"n">>, io |-> "ok", handler |-> "returns", auditFails |-> FALSE,
     rand |-> "call_r4nd0m"]

\* the environment's choices that the call can observe
EnvsFor(call) ==
    {[DefaultEnv EXCEPT !.answer = a, !.io = o, !.handler = h, !.auditFails = af] :
        a \in (IF call.function.name \in CommandNames THEN Answers ELSE {<<"n">>}),
        o \in {"ok", "fail"},
        h \in (IF call.function.name \in pluginHandlers \ BuiltinNames
               THEN HandlerBehaviours ELSE {"returns"}),
        af \in (IF auditPath THEN BOOLEAN ELSE {FALSE})}

\* what is remembered of the call that came before the last when that call
\* was a read-only one; no such call
NoBefore == [call |-> ToolCall(None, "", NoArgs("invalid")), io |-> "ok", content |-> Msg("")]

NoLast ==
    [call |-> ToolCall(None, "", NoArgs("invalid")),
     filesBefore |-> [p \in Paths |-> None], settled |-> "none",
     result |-> [tool_call_id |-> "", name |-> "", content |-> Msg("")],
     io |-> "ok", before |-> NoBefore]

\* the state changes of one execute call
Run(call, env) ==
    LET r == execute(call, env)
        n == calls + 1
    IN  /\ calls' = n
        /\ files' = r.files
        /\ effects' = effects \o [i \in 1..Len(r.effects) |-> [r.effects[i] EXCEPT !.callNo = n]]
        /\ last' = [call |-> call, filesBefore |-> files,
                    settled |-> r.settled, result |-> r.result, io |-> env.io,
                    before |-> IF last.call.function.name \in ReadOnlyNames
                               THEN [call |-> last.call, io |-> last.io,
                                     content |-> last.result.content]
                               ELSE NoBefore]

configVars == <<autoApproveCommands, dryRun, allowlistCommands, pluginHandlers, auditPath>>

\* new ToolExecutor(options), with the audit path set or not
InitExecutor ==
    /\ autoApproveCommands \in BOOLEAN
    /\ dryRun \in BOOLEAN
    /\ allowlistCommands \in {allowlistSet(raw) : raw \in AllowlistOptions}
    /\ pluginHandlers \in {{"my_plugin"}, {"my_plugin", "read_file", "ls"}}
    /\ auditPath \in BOOLEAN
    /\ files = [p \in Paths |-> IF p = "f" THEN Some(<<"a", "b", "a">>) ELSE None]
    /\ effects = <<>>
    /\ calls = 0
    /\ last = NoLast
    /\ maxRetries = 3 /\ attempt = 0 /\ clientPc = "idle"
    /\ attemptLog = <<>> /\ waits = <<>> /\ clientResult = NoClientResult
    /\ history = <<>> /\ agentPc = "unbuilt" /\ currentStep = 0 /\ toolIdx = 0
    /\ turnStart = 0 /\ requests = 0 /\ chatResult = NoSettlement
    /\ wire = <<>> /\ pos = 0 /\ buffer = <<>> /\ streamContent = <<>>
    /\ toolCallsAccum = NoAccum /\ sink = <<>> /\ streamPc = "unused"
    /\ streamResult = NoStreamResult /\ plain = NoPlain /\ session = NoSession /\ sub = NoSub /\ grep = NoGrep
    /\ lastUserInput = None /\ lastInputFailed = FALSE /\ tasks = <<>>
    /\ owner = <<>> /\ replLines = 0

\* a caller invokes ToolExecutor.execute(call)
Execute ==
    /\ calls < MaxCalls
    /\ \E call \in ExecCalls : \E env \in EnvsFor(call) : Run(call, env)
    /\ UNCHANGED <<configVars, clientVars, grepVars, sessionVars, subVars, agentVars, streamVars, replVars>>

NextExec == Execute

\* one ToolExecutor, any configuration, any sequence of execute calls
SpecExec == InitExecutor /\ [][NextExec]_vars

----------------------------------------------------------------------------
(* edit_file on every small file content *)

SeqsUpTo(S, n) == UNION {[1..k -> S] : k \in 0..n}

Contents == SeqsUpTo({"a", "b"}, MaxLen)
OldTexts == SeqsUpTo({"a", "b"}, 2)
NewTexts == {<<>>, <<"b">>, <<"a", "a">>, <<"$", "&">>, <<"$", "$">>}

EditCalls ==
    {ToolCall(Some("e1"), n, EditArgs(p, o, t)) :
        n \in {"edit_file"}, p \in Paths, o \in OldTexts, t \in NewTexts}
    \cup {ToolCall(Some("e1"), "patch_file", EditArgs("f", <<"a">>, <<"b">>))}

InitEdit ==
    /\ autoApproveCommands = FALSE
    /\ dryRun = FALSE
    /\ allowlistCommands = {}
    /\ pluginHandlers = {}
    /\ auditPath = FALSE
    /\ files \in {[p \in Paths |-> IF p = "f" THEN Some(c) ELSE None] : c \in Contents}
    /\ effects = <<>>
    /\ calls = 0
    /\ last = NoLast
    /\ maxRetries = 3 /\ attempt = 0 /\ clientPc = "idle"
    /\ attemptLog = <<>> /\ waits = <<>> /\ clientResult = NoClientResult
    /\ history = <<>> /\ agentPc = "unbuilt" /\ currentStep = 0 /\ toolIdx = 0
    /\ turnStart = 0 /\ requests = 0 /\ chatResult = NoSettlement
    /\ wire = <<>> /\ pos = 0 /\ buffer = <<>> /\ streamContent = <<>>
    /\ toolCallsAccum = NoAccum /\ sink = <<>> /\ streamPc = "unused"
    /\ streamResult = NoStreamResult /\ plain = NoPlain /\ session = NoSession /\ sub = NoSub /\ grep = NoGrep
    /\ lastUserInput = None /\ lastInputFailed = FALSE /\ tasks = <<>>
    /\ owner = <<>> /\ replLines = 0

\* the model asks for an exact-text replacement
EditFile ==
    /\ calls < MaxEdits
    /\ \E call \in EditCalls : \E env \in EnvsFor(call) : Run(call, env)
    /\ UNCHANGED <<configVars, clientVars, grepVars, sessionVars, subVars, agentVars, streamVars, replVars>>

NextEdit == EditFile

SpecEdit == InitEdit /\ [][NextEdit]_vars

----------------------------------------------------------------------------
(* ToolExecutor.grepSearch (tools.ts:473-532) *)

\* const maxResults = 50
maxResults == 50

\* A name is a sequence of pieces, a leading '.' being a piece of its own; a
\* path is a sequence of names. A line is "x" (the pattern matches it), "X"
\* (it matches when case is ignored) or "-" (it does not match).
File(name, lines, readable) ==
    [name |-> name, kind |-> "file", lines |-> lines, readable |-> readable, entries |-> <<>>]
Dir(name, entries, readable) ==
    [name |-> name, kind |-> "dir", lines |-> <<>>, readable |-> readable, entries |-> entries]
\* a symbolic link, a socket: neither isFile() nor isDirectory()
Other(name) ==
    [name |-> name, kind |-> "other", lines |-> <<>>, readable |-> TRUE, entries |-> <<>>]
Missing == [name |-> <<>>, kind |-> "missing", lines |-> <<>>, readable |-> FALSE, entries |-> <<>>]

\* fs.stat(fullPath): the node that the path names below node
RECURSIVE lookup(_, _)
lookup(node, path) ==
    IF path = <<>> THEN node
    ELSE IF node.kind # "dir" THEN Missing
    ELSE LET hits == {i \in 1..Len(node.entries) : node.entries[i].name = Head(path)}
         IN  IF hits = {} THEN Missing
             ELSE lookup(node.entries[CHOOSE i \in hits : TRUE], Tail(path))

\* new RegExp(pattern, ignoreCase ? 'gi' : 'g').test(line)
regexTest(line, ignoreCase) == line = "x" \/ (ignoreCase /\ line = "X")

\* new RegExp(pattern, flags) throws a SyntaxError on a pattern that is not a
\* regular expression, such as an unclosed group
validRegExp(pattern) == pattern # "("

\* lines.forEach of searchFile, from line idx on
RECURSIVE searchLines(_, _, _, _, _)
searchLines(filePath, lines, idx, ignoreCase, results) ==
    IF idx > Len(lines) THEN results
    ELSE searchLines(filePath, lines, idx + 1, ignoreCase,
            IF Len(results) >= maxResults THEN results
            ELSE IF regexTest(lines[idx], ignoreCase)
                 THEN Append(results, [path |-> filePath, line |-> idx])
                 ELSE results)

\* searchFile: fs.readFile and new RegExp are both inside the try block, so
\* a file that cannot be read and a pattern that does not compile both leave
\* results as it was
searchFile(pattern, filePath, file, ignoreCase, results) ==
    IF ~file.readable \/ ~validRegExp(pattern) THEN results
    ELSE searchLines(filePath, file.lines, 1, ignoreCase, results)

\* a skip test that knows hidden entries only
isSkippedHiddenOnly(name) == name[1] = "."

\* entry.name.startsWith('.') || entry.name === 'node_modules' || entry.name === 'dist'
isSkipped(name) == name[1] = "." \/ name = <<"node_modules">> \/ name = <<"dist">>

\* searchDir over the entries of the directory from the first of `entries`
\* on; fs.readdir of a directory that cannot be read throws
RECURSIVE searchEntries(_, _, _, _, _, _)
searchEntries(pattern, dirPath, entries, recursive, ignoreCase, st) ==
    IF st.threw \/ entries = <<>> \/ Len(st.results) >= maxResults THEN st
    ELSE LET entry == Head(entries)
             entryPath == Append(dirPath, entry.name)
             st1 == IF isSkipped(entry.name) THEN st
                    ELSE IF entry.kind = "dir" /\ recursive
                    THEN IF ~entry.readable THEN [st EXCEPT !.threw = TRUE]
                         ELSE searchEntries(pattern, entryPath, entry.entries, recursive,
                                            ignoreCase, st)
                    ELSE IF entry.kind = "file"
                    THEN [st EXCEPT !.results =
                            searchFile(pattern, entryPath, entry, ignoreCase, @)]
                    ELSE st
         IN  searchEntries(pattern, dirPath, Tail(entries), recursive, ignoreCase, st1)

\* grepSearch(pattern, searchPath, recursive, ignoreCase) on the workspace tree
grepSearch(tree, pattern, searchPath, recursive, ignoreCase) ==
    LET node == lookup(tree, searchPath)
        st0 == [threw |-> FALSE, results |-> <<>>]
        st == IF node.kind = "file"
              THEN [st0 EXCEPT !.results = searchFile(pattern, searchPath, node, ignoreCase, @)]
              ELSE IF node.kind = "dir"
              THEN IF ~node.readable THEN [st0 EXCEPT !.threw = TRUE]
                   ELSE searchEntries(pattern, searchPath, node.entries, recursive,
                                      ignoreCase, st0)
              ELSE st0
    IN  IF node.kind = "missing" \/ st.threw
        THEN [kind |-> "error", results |-> <<>>, limited |-> FALSE]
        ELSE IF st.results = <<>>
        THEN [kind |-> "none", results |-> <<>>, limited |-> FALSE]
        ELSE [kind |-> "matches", results |-> st.results,
              limited |-> Len(st.results) >= maxResults]

\* a file of n matching lines
manyLines(n) == [i \in 1..n |-> "x"]

FileContents == {<<>>, <<"-", "x", "X">>, manyLines(ManyLines)}

reverse(s) == [i \in 1..Len(s) |-> s[Len(s) + 1 - i]]

\* a workspace with source files, a hidden file and a hidden directory,
\* node_modules, dist, a file that cannot be read and a symbolic link
Workspace(l1, l2) ==
    <<File(<<"a.ts">>, l1, TRUE),
      Dir(<<"src">>,
          <<File(<<"b.ts">>, l2, TRUE),
            Dir(<<".", "cache">>, <<File(<<"c.ts">>, <<"x">>, TRUE)>>, TRUE),
            Dir(<<"dist">>, <<File(<<"out.js">>, <<"x">>, TRUE)>>, TRUE),
            Dir(<<"distribution">>, <<File(<<"d.ts">>, <<"x">>, TRUE)>>, TRUE)>>, TRUE),
      Dir(<<"node_modules">>,
          <<Dir(<<"pkg">>, <<File(<<"m.js">>, <<"x">>, TRUE)>>, TRUE)>>, TRUE),
      File(<<".", "env">>, <<"x">>, TRUE),
      File(<<"dist">>, <<"x">>, TRUE),
      File(<<"bin">>, <<"x">>, FALSE),
      Other(<<"link">>)>>

\* the directory listings come in any order; two of them
Trees ==
    {Dir(<<>>, es, TRUE) :
        es \in UNION {{Workspace(l1, l2), reverse(Workspace(l1, l2))} :
                        l1 \in FileContents, l2 \in FileContents}}

SearchPaths ==
    {<<>>, <<(<<"src">>)>>, <<(<<"node_modules">>)>>, <<(<<"a.ts">>)>>,
     <<(<<".", "env">>)>>, <<(<<"missing">>)>>}

\* a pattern that compiles and one that does not
Patterns == {"x", "("}

\* grep_search is called on a workspace
InitGrep ==
    /\ grep \in {[NoGrep EXCEPT !.tree = t, !.pattern = pt, !.searchPath = sp,
                                !.recursive = r, !.ignoreCase = ic, !.pc = "called"] :
                    t \in Trees, pt \in Patterns, sp \in SearchPaths,
                    r \in BOOLEAN, ic \in BOOLEAN}
    /\ autoApproveCommands = FALSE /\ dryRun = FALSE /\ allowlistCommands = {}
    /\ pluginHandlers = {} /\ auditPath = FALSE
    /\ files = [p \in Paths |-> None] /\ effects = <<>> /\ calls = 0 /\ last = NoLast
    /\ maxRetries = 3 /\ attempt = 0 /\ clientPc = "idle"
    /\ attemptLog = <<>> /\ waits = <<>> /\ clientResult = NoClientResult
    /\ history = <<>> /\ agentPc = "unbuilt" /\ currentStep = 0 /\ toolIdx = 0
    /\ turnStart = 0 /\ requests = 0 /\ chatResult = NoSettlement
    /\ wire = <<>> /\ pos = 0 /\ buffer = <<>> /\ streamContent = <<>>
    /\ toolCallsAccum = NoAccum /\ sink = <<>> /\ streamPc = "unused"
    /\ streamResult = NoStreamResult /\ plain = NoPlain /\ session = NoSession /\ sub = NoSub
    /\ lastUserInput = None /\ lastInputFailed = FALSE /\ tasks = <<>>
    /\ owner = <<>> /\ replLines = 0

\* the search runs and returns
GrepSearch ==
    /\ grep.pc = "called"
    /\ grep' = [grep EXCEPT
                    !.pc = "returned",
                    !.output = grepSearch(grep.tree, grep.pattern, grep.searchPath,
                                          grep.recursive, grep.ignoreCase)]
    /\ UNCHANGED <<execVars, clientVars, agentVars, streamVars, replVars, sessionVars, subVars>>

NextGrep == GrepSearch

SpecGrep == InitGrep /\ [][NextGrep]_vars

----------------------------------------------------------------------------
(* LLMClient.chat (llm-client.ts:21-110) *)

\* an error message is a sequence of text pieces; the pieces are never split
\* further, so a marker occurs in a message when it is one of its pieces
ErrorValue(name, message) == [name |-> name, message |-> message]

\* new Error(`API Error ${response.status}: ${text}`): the status is its
\* first digit followed by its last two
apiError(status, text) ==
    ErrorValue("Error", <<"API Error ", status[1], status[2], ": ">> \o text)

\* error.message.includes(marker)
messageIncludes(message, marker) == \E i \in 1..Len(message) : message[i] = marker

\* error.message.startsWith('API Error 5')
startsWithApiError5(message) ==
    Len(message) >= 2 /\ message[1] = "API Error " /\ message[2] = "5"

\* the classification in the catch block (llm-client.ts:92-97)
isRetryable(error) ==
    \/ error.name = "AbortError"
    \/ /\ error.message # <<>>
       /\ \/ messageIncludes(error.message, "ECONNRESET")
          \/ messageIncludes(error.message, "ETIMEDOUT")
          \/ messageIncludes(error.message, "fetch failed")
          \/ startsWithApiError5(error.message)

\* Math.pow(2, attempt)
RECURSIVE pow2(_)
pow2(n) == IF n = 0 THEN 1 ELSE 2 * pow2(n - 1)

min(a, b) == IF a < b THEN a ELSE b

\* the delay without its cap
backoffDelayUncapped(a) == 1000 * pow2(a)

\* Math.min(1000 * Math.pow(2, attempt), 10000)
backoffDelay(a) == min(1000 * pow2(a), 10000)

AssistantMessage(content, toolCalls) ==
    [role |-> "assistant", content |-> content, tool_calls |-> toolCalls,
     tool_call_id |-> None, name |-> None]

\* what one attempt can meet. kind says what happened on the wire; error is
\* the value the try block throws for it (none on success)
NoError == ErrorValue("", <<>>)

Statuses == {<<"4", "04">>, <<"5", "00">>, <<"5", "03">>}
Bodies == {<<"Not Found">>, <<"upstream said: ", "ECONNRESET">>, <<"fetch failed">>}

Outcome(kind, status, error, message) ==
    [kind |-> kind, status |-> status, error |-> error, message |-> message]

HttpOutcomes ==
    {Outcome("http", st, apiError(st, b), NoMessage) : st \in Statuses, b \in Bodies}

NetworkOutcomes ==
    {Outcome("abort", <<>>, ErrorValue("AbortError", <<"The user aborted a request.">>), NoMessage),
     Outcome("reset", <<>>, ErrorValue("FetchError", <<"request failed, reason: ", "ECONNRESET">>), NoMessage),
     Outcome("timedout", <<>>, ErrorValue("FetchError", <<"request failed, reason: ", "ETIMEDOUT">>), NoMessage),
     Outcome("connfail", <<>>, ErrorValue("TypeError", <<"fetch failed">>), NoMessage),
     Outcome("connfail", <<>>, ErrorValue("FetchError", <<"request failed, reason: ", "ECONNREFUSED">>), NoMessage)}

\* a 200 whose body is not the expected JSON: response.json() or
\* data.choices[0] throws inside the try block
ParseOutcomes ==
    {Outcome("badbody", <<"2", "00">>, ErrorValue("FetchError", <<"invalid json response body">>), NoMessage),
     Outcome("badbody", <<"2", "00">>, ErrorValue("TypeError", <<"Cannot read properties of undefined">>), NoMessage)}

OkOutcomes ==
    {Outcome("ok", <<"2", "00">>, NoError, AssistantMessage(Some(Msg("text")), None)),
     Outcome("ok", <<"2", "00">>, NoError, AssistantMessage(None, None))}

Outcomes == OkOutcomes \cup HttpOutcomes \cup NetworkOutcomes \cup ParseOutcomes

\* new LLMClient(config): retries as loadConfig leaves it, a number >= 0
InitClient ==
    /\ maxRetries \in 0..MaxRetries
    /\ attempt = 0 /\ clientPc = "idle"
    /\ attemptLog = <<>> /\ waits = <<>> /\ clientResult = NoClientResult
    /\ autoApproveCommands = FALSE /\ dryRun = FALSE /\ allowlistCommands = {}
    /\ pluginHandlers = {} /\ auditPath = FALSE
    /\ files = [p \in Paths |-> None] /\ effects = <<>> /\ calls = 0 /\ last = NoLast
    /\ history = <<>> /\ agentPc = "unbuilt" /\ currentStep = 0 /\ toolIdx = 0
    /\ turnStart = 0 /\ requests = 0 /\ chatResult = NoSettlement
    /\ wire = <<>> /\ pos = 0 /\ buffer = <<>> /\ streamContent = <<>>
    /\ toolCallsAccum = NoAccum /\ sink = <<>> /\ streamPc = "unused"
    /\ streamResult = NoStreamResult /\ plain = NoPlain /\ session = NoSession /\ sub = NoSub /\ grep = NoGrep
    /\ lastUserInput = None /\ lastInputFailed = FALSE /\ tasks = <<>>
    /\ owner = <<>> /\ replLines = 0

\* chat is called: the loop starts with attempt = 0
ClientChat ==
    /\ clientPc = "idle"
    /\ clientPc' = "fetching"
    /\ attempt' = 0
    /\ UNCHANGED <<maxRetries, attemptLog, waits, clientResult, execVars, grepVars, sessionVars, subVars, agentVars, streamVars, replVars>>

\* the catch block: wait and go round again, or throw
catchError(o) ==
    IF attempt < maxRetries /\ isRetryable(o.error)
    THEN /\ waits' = Append(waits, [after |-> attempt, ms |-> backoffDelay(attempt)])
         /\ clientPc' = "backoff"
         /\ clientResult' = clientResult
    ELSE /\ waits' = waits
         /\ clientPc' = "threw"
         /\ clientResult' = [kind |-> "threw", message |-> NoMessage, error |-> o.error]

\* one pass through the try block ends with outcome o: the attempt
\* succeeded or threw
attemptEnds(o) ==
    /\ attemptLog' = Append(attemptLog, [attempt |-> attempt, outcome |-> o])
    /\ IF o.kind = "ok"
       THEN /\ clientPc' = "returned"
            /\ clientResult' = [kind |-> "returned", message |-> o.message,
                                 error |-> NoError]
            /\ waits' = waits
       ELSE catchError(o)

\* one pass through the try block ends: the attempt succeeded or threw
ClientAttempt ==
    /\ clientPc = "fetching"
    /\ \E o \in Outcomes : attemptEnds(o)
    /\ UNCHANGED <<maxRetries, attempt, execVars, grepVars, sessionVars, subVars, agentVars, streamVars, replVars>>

\* the endpoint sends its response headers and then nothing more: fetch has
\* resolved, clearTimeout(timeoutId) has run (llm-client.ts:68), and chat awaits
\* response.text(), response.json() or the end of the event stream
StallOutcomes ==
    {Outcome("stalled", st, NoError, NoMessage) : st \in {<<"2", "00">>, <<"4", "04">>}}

ClientStall ==
    /\ clientPc = "fetching"
    /\ \E o \in StallOutcomes :
        attemptLog' = Append(attemptLog, [attempt |-> attempt, outcome |-> o])
    /\ clientPc' = "stalled"
    /\ UNCHANGED <<maxRetries, attempt, waits, clientResult, execVars, grepVars, sessionVars, subVars, agentVars,
                   streamVars, replVars>>

\* the backoff timer fires: attempt++ and the loop condition holds
ClientBackoffDone ==
    /\ clientPc = "backoff"
    /\ attempt' = attempt + 1
    /\ clientPc' = IF attempt + 1 <= maxRetries THEN "fetching" ELSE "threw"
    /\ UNCHANGED <<maxRetries, attemptLog, waits, clientResult, execVars, grepVars, sessionVars, subVars, agentVars, streamVars, replVars>>

NextClient == ClientChat \/ ClientAttempt \/ ClientStall \/ ClientBackoffDone

\* one LLMClient.chat call under every sequence of endpoint outcomes
SpecClient == InitClient /\ [][NextClient]_vars

\* the same call when every timer that is armed fires and every promise
\* that can settle settles: a step that is possible is eventually taken
SpecClientLive == InitClient /\ [][NextClient]_vars /\ WF_vars(NextClient)

\* chat with a large config.retries, against an endpoint that times out,
\* answers 500 or succeeds
BackoffOutcomes ==
    {o \in Outcomes :
        \/ o.kind = "abort"
        \/ o.kind = "http" /\ o.status = <<"5", "00">> /\ o.error = apiError(o.status, <<"Not Found">>)
        \/ o.kind = "ok" /\ o.message.content # None}

InitBackoff ==
    /\ maxRetries \in 0..MaxBackoffRetries
    /\ attempt = 0 /\ clientPc = "idle"
    /\ attemptLog = <<>> /\ waits = <<>> /\ clientResult = NoClientResult
    /\ autoApproveCommands = FALSE /\ dryRun = FALSE /\ allowlistCommands = {}
    /\ pluginHandlers = {} /\ auditPath = FALSE
    /\ files = [p \in Paths |-> None] /\ effects = <<>> /\ calls = 0 /\ last = NoLast
    /\ history = <<>> /\ agentPc = "unbuilt" /\ currentStep = 0 /\ toolIdx = 0
    /\ turnStart = 0 /\ requests = 0 /\ chatResult = NoSettlement
    /\ wire = <<>> /\ pos = 0 /\ buffer = <<>> /\ streamContent = <<>>
    /\ toolCallsAccum = NoAccum /\ sink = <<>> /\ streamPc = "unused"
    /\ streamResult = NoStreamResult /\ plain = NoPlain /\ session = NoSession /\ sub = NoSub /\ grep = NoGrep
    /\ lastUserInput = None /\ lastInputFailed = FALSE /\ tasks = <<>>
    /\ owner = <<>> /\ replLines = 0

BackoffAttempt ==
    /\ clientPc = "fetching"
    /\ \E o \in BackoffOutcomes : attemptEnds(o)
    /\ UNCHANGED <<maxRetries, attempt, execVars, grepVars, sessionVars, subVars, agentVars, streamVars, replVars>>

NextBackoff == ClientChat \/ BackoffAttempt \/ ClientBackoffDone

SpecBackoff == InitBackoff /\ [][NextBackoff]_vars

----------------------------------------------------------------------------
(* LLMClient.parseStreamResponse (llm-client.ts:112-160) *)

\* The incoming bytes are a sequence of units that a chunk boundary never
\* cuts: a line break, the event marker 'data: ', the text '[DONE]', text
\* that is not JSON, and the JSON text of one event. The JSON text of an
\* event that holds the two-byte character "e-acute" comes in two units,
\* part 1 ending with the character's first byte and part 2 starting with
\* its second byte, so that a chunk boundary can fall inside the character.

\* choices[0].delta of one event: content and tool_calls may be absent
Delta(deltaContent, toolCalls) ==
    [hasDelta |-> TRUE, content |-> deltaContent, tool_calls |-> toolCalls]

\* a JSON object without choices
NoDelta == [hasDelta |-> FALSE, content |-> None, tool_calls |-> None]

\* one element of delta.tool_calls
TcDelta(index, id, name, arguments) ==
    [index |-> index, id |-> id, name |-> name, arguments |-> arguments]

Unit(t) == [t |-> t, json |-> NoDelta, part |-> 0, bad |-> FALSE]
NL == Unit("nl")
Marker == Unit("data: ")
Done == Unit("[DONE]")
Junk == Unit("junk")
JsonUnit(payload, part) == [t |-> "json", json |-> payload, part |-> part, bad |-> FALSE]

\* whether a string of the payload holds the two-byte character
hasWideChar(str) == \E i \in 1..Len(str) : str[i] = "e-acute"

payloadIsWide(payload) ==
    \/ payload.content # None /\ hasWideChar(payload.content[1])
    \/ /\ payload.tool_calls # None
       /\ \E i \in 1..Len(payload.tool_calls[1]) :
            /\ payload.tool_calls[1][i].arguments # None
            /\ hasWideChar(payload.tool_calls[1][i].arguments[1])

\* the line `data: <JSON text of payload>`, without its line break
EventLine(payload) ==
    IF payloadIsWide(payload)
    THEN <<Marker, JsonUnit(payload, 1), JsonUnit(payload, 2)>>
    ELSE <<Marker, JsonUnit(payload, 0)>>

\* Buffer.toString() of a sequence that is not valid UTF-8: each byte of the
\* character cut by the chunk boundary becomes U+FFFD
RECURSIVE replaceWide(_)
replaceWide(str) ==
    IF str = <<>> THEN <<>>
    ELSE (IF Head(str) = "e-acute" THEN <<"U+FFFD", "U+FFFD">> ELSE <<Head(str)>>)
            \o replaceWide(Tail(str))

corruptTc(tc) ==
    IF tc.arguments = None THEN tc
    ELSE [tc EXCEPT !.arguments = Some(replaceWide(tc.arguments[1]))]

corrupt(payload) ==
    [payload EXCEPT
        !.content = IF @ = None THEN None ELSE Some(replaceWide(@[1])),
        !.tool_calls = IF @ = None THEN None
                       ELSE Some([i \in 1..Len(@[1]) |-> corruptTc(@[1][i])])]

\* chunk.toString(): every chunk is decoded on its own, so the half of a
\* character at either end of the chunk is decoded as U+FFFD
chunkToString(chunk) ==
    [i \in 1..Len(chunk) |->
        IF \/ i = Len(chunk) /\ chunk[i].part = 1
           \/ i = 1 /\ chunk[i].part = 2
        THEN [chunk[i] EXCEPT !.bad = TRUE]
        ELSE chunk[i]]

\* buffer.split('\n')
RECURSIVE splitLines(_)
splitLines(b) ==
    IF \A i \in 1..Len(b) : b[i] # NL THEN <<b>>
    ELSE LET i == CHOOSE i \in 1..Len(b) : b[i] = NL /\ \A j \in 1..(i - 1) : b[j] # NL
         IN  <<SubSeq(b, 1, i - 1)>> \o splitLines(SubSeq(b, i + 1, Len(b)))

\* JSON.parse(line.slice(6)): the text parses when it is the whole JSON text
\* of one event; a string with U+FFFD in it is still a string
parseEventJson(rest) ==
    IF Len(rest) = 1 /\ rest[1].t = "json" /\ rest[1].part = 0
    THEN [threw |-> FALSE, value |-> rest[1].json]
    ELSE IF /\ Len(rest) = 2 /\ rest[1].t = "json" /\ rest[2].t = "json"
            /\ rest[1].part = 1 /\ rest[2].part = 2 /\ rest[1].json = rest[2].json
         THEN [threw |-> FALSE,
               value |-> IF rest[1].bad \/ rest[2].bad THEN corrupt(rest[1].json)
                         ELSE rest[1].json]
         ELSE [threw |-> TRUE, value |-> NoDelta]

\* a JavaScript string that is neither undefined nor '': an id or a name,
\* kept whole, and a text, kept as its characters
truthy(optional) == optional # None /\ optional[1] # ""
truthyText(optional) == optional # None /\ Len(optional[1]) > 0

\* Object.keys(toolCallsAccum).length
accumSize(accum) == Cardinality({k \in DOMAIN accum : accum[k].present})

\* the body of the loop over delta.tool_calls (llm-client.ts:134-138)
accumulate(accum, tc) ==
    LET idx == IF tc.index = None THEN 0 ELSE tc.index[1]
        e0 == IF accum[idx].present THEN accum[idx]
              ELSE [NoEntry EXCEPT !.present = TRUE, !.nth = accumSize(accum) + 1]
        e1 == IF truthy(tc.id) THEN [e0 EXCEPT !.id = tc.id] ELSE e0
        e2 == IF truthy(tc.name) THEN [e1 EXCEPT !.name = tc.name] ELSE e1
        e3 == IF truthyText(tc.arguments) THEN [e2 EXCEPT !.args = @ \o tc.arguments[1]] ELSE e2
    IN  [accum EXCEPT ![idx] = e3]

RECURSIVE accumulateAll(_, _)
accumulateAll(accum, tcs) ==
    IF tcs = <<>> THEN accum
    ELSE accumulateAll(accumulate(accum, Head(tcs)), Tail(tcs))

\* the loop body if an event whose JSON text does not parse ended the
\* accumulation instead of being skipped
processLineStrict(st, line) ==
    IF Len(line) >= 1 /\ line[1] = Marker /\ line # <<Marker, Done>>
    THEN LET parsed == parseEventJson(Tail(line))
             delta == parsed.value
             st1 == IF delta.hasDelta /\ truthyText(delta.content)
                    THEN [st EXCEPT !.content = @ \o delta.content[1],
                                    !.sink = Append(@, delta.content[1])]
                    ELSE st
         IN  IF parsed.threw THEN [st EXCEPT !.content = <<>>, !.accum = NoAccum]
             ELSE IF delta.hasDelta /\ delta.tool_calls # None
                  THEN [st1 EXCEPT !.accum = accumulateAll(@, delta.tool_calls[1])]
                  ELSE st1
    ELSE st

\* the body of the loop over the complete lines (llm-client.ts:124-142); st
\* holds content, toolCallsAccum and the calls of onChunk so far
processLine(st, line) ==
    IF Len(line) >= 1 /\ line[1] = Marker /\ line # <<Marker, Done>>
    THEN LET parsed == parseEventJson(Tail(line))
             delta == parsed.value
             st1 == IF delta.hasDelta /\ truthyText(delta.content)
                    THEN [st EXCEPT !.content = @ \o delta.content[1],
                                    !.sink = Append(@, delta.content[1])]
                    ELSE st
         IN  IF parsed.threw THEN st
             ELSE IF delta.hasDelta /\ delta.tool_calls # None
                  THEN [st1 EXCEPT !.accum = accumulateAll(@, delta.tool_calls[1])]
                  ELSE st1
    ELSE st

RECURSIVE processLines(_, _)
processLines(st, lines) ==
    IF lines = <<>> THEN st
    ELSE processLines(processLine(st, Head(lines)), Tail(lines))

\* the 'data' handler (llm-client.ts:119-143) on the parser state st
onData(st, chunk) ==
    LET lines == splitLines(st.buffer \o chunkToString(chunk))
        out == processLines([content |-> st.content, accum |-> st.accum, sink |-> st.sink],
                            SubSeq(lines, 1, Len(lines) - 1))
    IN  [buffer |-> lines[Len(lines)], content |-> out.content, accum |-> out.accum,
         sink |-> out.sink]

StreamToolCall(id, name, arguments) ==
    [id |-> id, function |-> [name |-> name, arguments |-> arguments]]

\* the entries of toolCallsAccum in the order their keys were created
RECURSIVE toolCallValuesByArrival(_)
toolCallValuesByArrival(accum) ==
    LET present == {k \in DOMAIN accum : accum[k].present}
    IN  IF present = {} THEN <<>>
        ELSE LET k == CHOOSE k \in present : \A j \in present : accum[k].nth <= accum[j].nth
             IN  <<accum[k]>> \o toolCallValuesByArrival([accum EXCEPT ![k] = NoEntry])

\* Object.values(toolCallsAccum): the keys are array indices, which an
\* object enumerates in ascending numeric order
RECURSIVE toolCallValues(_)
toolCallValues(accum) ==
    LET present == {k \in DOMAIN accum : accum[k].present}
    IN  IF present = {} THEN <<>>
        ELSE LET k == CHOOSE k \in present : \A j \in present : k <= j
             IN  <<accum[k]>> \o toolCallValues([accum EXCEPT ![k] = NoEntry])

\* the message the 'end' handler resolves with (llm-client.ts:146-156)
streamMessage(text, accum) ==
    LET values == toolCallValues(accum)
    IN  [role |-> "assistant",
         content |-> IF text = <<>> THEN None ELSE Some(text),
         tool_calls |->
            IF accumSize(accum) > 0
            THEN Some([i \in 1..Len(values) |->
                        StreamToolCall(values[i].id,
                                       IF truthy(values[i].name) THEN values[i].name[1]
                                       ELSE "unknown",
                                       values[i].args)])
            ELSE None]

\* the events an endpoint sends
ContentPayloads ==
    {Delta(Some(<<"H">>), None), Delta(Some(<<>>), None), Delta(Some(<<"e-acute">>), None)}

ToolPayloads ==
    {Delta(None, Some(<<TcDelta(Some(0), Some("a"), Some("read_file"), Some(<<"{">>))>>)),
     Delta(None, Some(<<TcDelta(Some(0), None, None, Some(<<"}">>))>>)),
     Delta(None, Some(<<TcDelta(Some(1), Some("b"), None, Some(<<"x">>))>>)),
     Delta(None, Some(<<TcDelta(Some(0), None, None, Some(<<"e-acute">>))>>)),
     Delta(None, Some(<<TcDelta(None, None, None, Some(<<"y">>))>>)),
     Delta(Some(<<"H">>), Some(<<TcDelta(Some(1), Some("b"), None, Some(<<"x">>)),
                                 TcDelta(Some(0), Some("a"), None, Some(<<"{">>))>>))}

\* the lines of a stream: events, the terminal line, a line without the
\* marker, a marked line whose payload is not JSON
Lines ==
    {EventLine(payload) : payload \in ContentPayloads \cup ToolPayloads \cup {NoDelta}}
    \cup {<<Marker, Done>>, <<Junk>>, <<Marker, Junk>>}

\* the lines joined by line breaks, with or without a last line break
RECURSIVE joinLines(_, _)
joinLines(ls, terminated) ==
    IF ls = <<>> THEN <<>>
    ELSE IF Len(ls) = 1 THEN Head(ls) \o (IF terminated THEN <<NL>> ELSE <<>>)
    ELSE Head(ls) \o <<NL>> \o joinLines(Tail(ls), terminated)

Wires == {joinLines(ls, t) : ls \in SeqsUpTo(Lines, MaxEvents), t \in BOOLEAN}

\* a line that is the terminal line or the line of an event
wellFormed(line) ==
    \/ line = <<Marker, Done>>
    \/ \E q \in ContentPayloads \cup ToolPayloads \cup {NoDelta} : line = EventLine(q)

\* position i of the stream lies in a malformed line that ends with a line
\* break, the line break included
inMalformedLine(i) ==
    LET s == CHOOSE j \in 1..i :
                /\ j = 1 \/ wire[j - 1] = NL
                /\ \A k \in (j + 1)..i : wire[k - 1] # NL
        ends == {j \in i..Len(wire) : wire[j] = NL}
    IN  /\ ends # {}
        /\ LET e == CHOOSE j \in ends : \A k \in ends : j <= k
           IN  ~wellFormed(SubSeq(wire, s, e - 1))

\* the bytes from..to of the stream without those of its malformed lines
RECURSIVE plainChunk(_, _)
plainChunk(from, to) ==
    IF from > to THEN <<>>
    ELSE (IF inMalformedLine(from) THEN <<>> ELSE <<wire[from]>>) \o plainChunk(from + 1, to)

\* parseStreamResponse(response, onChunk) is called on a response whose
\* body will carry one of the streams
InitStream ==
    /\ wire \in Wires
    /\ pos = 0 /\ buffer = <<>> /\ streamContent = <<>>
    /\ toolCallsAccum = NoAccum /\ sink = <<>> /\ streamPc = "open"
    /\ streamResult = NoStreamResult /\ plain = NoPlain /\ session = NoSession /\ sub = NoSub /\ grep = NoGrep
    /\ autoApproveCommands = FALSE /\ dryRun = FALSE /\ allowlistCommands = {}
    /\ pluginHandlers = {} /\ auditPath = FALSE
    /\ files = [p \in Paths |-> None] /\ effects = <<>> /\ calls = 0 /\ last = NoLast
    /\ maxRetries = 3 /\ attempt = 0 /\ clientPc = "idle"
    /\ attemptLog = <<>> /\ waits = <<>> /\ clientResult = NoClientResult
    /\ history = <<>> /\ agentPc = "unbuilt" /\ currentStep = 0 /\ toolIdx = 0
    /\ turnStart = 0 /\ requests = 0 /\ chatResult = NoSettlement
    /\ lastUserInput = None /\ lastInputFailed = FALSE /\ tasks = <<>>
    /\ owner = <<>> /\ replLines = 0

\* stream.on('data'): the next chunk, of any length, arrives
StreamData ==
    /\ streamPc = "open"
    /\ pos < Len(wire)
    /\ \E n \in 1..(Len(wire) - pos) :
        LET chunk == SubSeq(wire, pos + 1, pos + n)
            lines == splitLines(buffer \o chunkToString(chunk))
            st == processLines([content |-> streamContent, accum |-> toolCallsAccum,
                                sink |-> sink],
                               SubSeq(lines, 1, Len(lines) - 1))
        IN  /\ pos' = pos + n
            /\ buffer' = lines[Len(lines)]
            /\ streamContent' = st.content
            /\ toolCallsAccum' = st.accum
            /\ sink' = st.sink
            /\ plain' = IF plainChunk(pos + 1, pos + n) = <<>> THEN plain
                        ELSE onData(plain, plainChunk(pos + 1, pos + n))
    /\ UNCHANGED <<wire, streamPc, streamResult, execVars, clientVars, grepVars, sessionVars, subVars, agentVars, replVars>>

\* stream.on('end'): resolve with the assembled message
StreamEnd ==
    /\ streamPc = "open"
    /\ pos = Len(wire)
    /\ streamPc' = "resolved"
    /\ streamResult' = streamMessage(streamContent, toolCallsAccum)
    /\ UNCHANGED <<wire, pos, buffer, streamContent, toolCallsAccum, sink, plain,
                   execVars, clientVars, grepVars, sessionVars, subVars, agentVars, replVars>>

\* stream.on('error', reject): the connection breaks
StreamError ==
    /\ streamPc = "open"
    /\ streamPc' = "rejected"
    /\ UNCHANGED <<wire, pos, buffer, streamContent, toolCallsAccum, sink, streamResult,
                   plain, execVars, clientVars, grepVars, sessionVars, subVars, agentVars, replVars>>

NextStream == StreamData \/ StreamEnd \/ StreamError

\* one streamed response under every stream and every way of cutting it
\* into chunks
SpecStream == InitStream /\ [][NextStream]_vars

----------------------------------------------------------------------------
(* Agent (agent module: constructor, chat) *)

\* private maxSteps = 10
maxSteps == 10

Message(role, content) ==
    [role |-> role, content |-> content, tool_calls |-> None, tool_call_id |-> None,
     name |-> None]

\* initSystemPrompt
SystemMessage == Message("system", Some(Msg("You are OpenCode, an autonomous coding agent ...")))

\* the message chat pushes for one ToolResult
ToolMessage(result) ==
    [role |-> "tool", content |-> Some(result.content), tool_calls |-> None,
     tool_call_id |-> Some(result.tool_call_id), name |-> Some(result.name)]

\* a test of the field alone, without its length
hasToolCallsField(response) == response.tool_calls # None

\* response.tool_calls && response.tool_calls.length > 0
hasToolCalls(response) ==
    response.tool_calls # None /\ Len(response.tool_calls[1]) > 0

\* response.content || ''
contentOrEmpty(response) ==
    IF response.content = None \/ response.content[1] = Msg("") THEN Msg("")
    ELSE response.content[1]

UserInputs == {"fix the bug"}

pluginCall == ToolCall(Some("a"), "my_plugin", NoArgs("object"))
readCallNoId == ToolCall(None, "read_file", PathArgs("f"))
readCall == ToolCall(Some("b"), "read_file", PathArgs("f"))

\* the assistant messages the transport hands to chat: buffered ones carry
\* what the endpoint sent, streamed ones may lack an id
AgentResponses ==
    {AssistantMessage(Some(Msg("done")), None),
     AssistantMessage(None, Some(<<>>)),
     AssistantMessage(None, Some(<<readCallNoId, pluginCall>>)),
     AssistantMessage(Some(Msg("reading")), Some(<<readCall>>))}

\* in a turn the workspace answers; a plugin handler returns or throws
AgentEnvs(call) ==
    {e \in EnvsFor(call) : e.io = "ok" /\ e.handler \in {"returns", "Nullish"}}

\* new Agent(llm, tools): the history holds the system prompt
InitAgent ==
    /\ history = <<SystemMessage>>
    /\ agentPc = "idle" /\ currentStep = 0 /\ toolIdx = 0
    /\ turnStart = 0 /\ requests = 0 /\ chatResult = NoSettlement
    /\ autoApproveCommands = TRUE /\ dryRun = FALSE /\ allowlistCommands = {}
    /\ pluginHandlers = {"my_plugin"} /\ auditPath = FALSE
    /\ files = [p \in Paths |-> IF p = "f" THEN Some(<<"a", "b", "a">>) ELSE None]
    /\ effects = <<>> /\ calls = 0 /\ last = NoLast
    /\ maxRetries = 3 /\ attempt = 0 /\ clientPc = "idle"
    /\ attemptLog = <<>> /\ waits = <<>> /\ clientResult = NoClientResult
    /\ wire = <<>> /\ pos = 0 /\ buffer = <<>> /\ streamContent = <<>>
    /\ toolCallsAccum = NoAccum /\ sink = <<>> /\ streamPc = "unused"
    /\ streamResult = NoStreamResult /\ plain = NoPlain /\ session = NoSession /\ sub = NoSub /\ grep = NoGrep
    /\ lastUserInput = None /\ lastInputFailed = FALSE /\ tasks = <<>>
    /\ owner = <<>> /\ replLines = 0

\* the head of the while loop: issue the next request, or fall out of the
\* loop and resolve with no value
loopHead(step, reqs) ==
    IF step < maxSteps
    THEN /\ currentStep' = step + 1
         /\ requests' = reqs + 1
         /\ agentPc' = "awaitLLM"
         /\ chatResult' = NoSettlement
    ELSE /\ currentStep' = step
         /\ requests' = reqs
         /\ agentPc' = "idle"
         /\ chatResult' = [kind |-> "returned", value |-> None, cause |-> "step bound"]

\* chat(userInput): push the user message and enter the loop
Chat ==
    /\ agentPc = "idle"
    /\ Len(history) <= MaxStartLen
    /\ \E userInput \in UserInputs :
        history' = Append(history, Message("user", Some(Msg(userInput))))
    /\ turnStart' = Len(history) + 1
    /\ toolIdx' = 0
    /\ loopHead(0, 0)
    /\ UNCHANGED <<execVars, clientVars, grepVars, sessionVars, subVars, streamVars, replVars>>

\* await this.llm.chat(...) resolves: push the response, then dispatch its
\* tool calls or return its content
LLMReturns ==
    /\ agentPc = "awaitLLM"
    /\ \E response \in AgentResponses :
        /\ history' = Append(history, response)
        /\ IF hasToolCalls(response)
           THEN /\ agentPc' = "tools"
                /\ toolIdx' = 1
                /\ chatResult' = chatResult
           ELSE /\ agentPc' = "idle"
                /\ toolIdx' = 0
                /\ chatResult' = [kind |-> "returned", cause |-> "no tool calls",
                                   value |-> Some(contentOrEmpty(response))]
    /\ UNCHANGED <<currentStep, turnStart, requests, execVars, clientVars, grepVars, sessionVars, subVars, streamVars, replVars>>

\* await this.llm.chat(...) rejects: the catch block rethrows
LLMThrows ==
    /\ agentPc = "awaitLLM"
    /\ agentPc' = "idle"
    /\ chatResult' = [kind |-> "threw", value |-> None, cause |-> "transport"]
    /\ UNCHANGED <<history, currentStep, toolIdx, turnStart, requests, execVars, clientVars, grepVars, sessionVars, subVars, streamVars, replVars>>

\* the response whose tool calls are being dispatched
currentResponse ==
    history[CHOOSE i \in 1..Len(history) :
                /\ history[i].role = "assistant"
                /\ \A j \in (i + 1)..Len(history) : history[j].role = "tool"]

\* a for loop that leaves after its first pass: the next request is issued
\* while later tool calls of the step have no result
ExecToolThenRequest ==
    /\ agentPc = "tools"
    /\ LET toolCalls == currentResponse.tool_calls[1]
           call == toolCalls[toolIdx]
       IN  /\ \E env \in AgentEnvs(call) : Run(call, env)
           /\ IF last'.settled = "rejected"
              THEN /\ history' = history
                   /\ toolIdx' = toolIdx
                   /\ agentPc' = "idle"
                   /\ chatResult' = [kind |-> "threw", value |-> None, cause |-> "tool"]
                   /\ UNCHANGED <<currentStep, requests>>
              ELSE /\ history' = Append(history, ToolMessage(last'.result))
                   /\ toolIdx' = 0
                   /\ loopHead(currentStep, requests)
    /\ UNCHANGED <<configVars, turnStart, clientVars, grepVars, sessionVars, subVars, streamVars, replVars>>

\* one pass of the for loop: await this.tools.execute(toolCall), push the
\* result; a rejected execute leaves chat through the catch block
ExecTool ==
    /\ agentPc = "tools"
    /\ LET toolCalls == currentResponse.tool_calls[1]
           call == toolCalls[toolIdx]
       IN  /\ \E env \in AgentEnvs(call) : Run(call, env)
           /\ IF last'.settled = "rejected"
              THEN /\ history' = history
                   /\ toolIdx' = toolIdx
                   /\ agentPc' = "idle"
                   /\ chatResult' = [kind |-> "threw", value |-> None, cause |-> "tool"]
                   /\ UNCHANGED <<currentStep, requests>>
              ELSE /\ history' = Append(history, ToolMessage(last'.result))
                   /\ IF toolIdx < Len(toolCalls)
                      THEN /\ toolIdx' = toolIdx + 1
                           /\ UNCHANGED <<agentPc, currentStep, requests, chatResult>>
                      ELSE /\ toolIdx' = 0
                           /\ loopHead(currentStep, requests)
    /\ UNCHANGED <<configVars, turnStart, clientVars, grepVars, sessionVars, subVars, streamVars, replVars>>

NextAgent == Chat \/ LLMReturns \/ LLMThrows \/ ExecTool

\* one Agent driven by chat calls, every response and tool outcome
SpecAgent == InitAgent /\ [][NextAgent]_vars

----------------------------------------------------------------------------
(* The REPL (context.ts:570-750, 1071-1112) driving one Agent *)

\* a line handler that has not called agent.chat
FreeTask ==
    [pc |-> "free", via |-> "none", input |-> "", afterFailure |-> FALSE,
     currentStep |-> 0, toolIdx |-> 0, response |-> NoMessage, settled |-> "pending"]

\* the messages loadSession reads from a saved session file
LoadedSession ==
    <<SystemMessage, Message("user", Some(Msg("earlier question"))),
      AssistantMessage(Some(Msg("earlier answer")), None)>>

\* the arrays a session file can hold: loadSession accepts every JSON array
\* (part_002:12), a saved history, the empty array, an array whose first
\* element is not a system message
LoadedSessions ==
    {LoadedSession, <<>>, <<Message("user", Some(Msg("earlier question")))>>}

\* the message /add pushes for a file
AddedContext == Message("user", Some(Msg("Context from file ...")))

\* what the transport answers in a REPL session
ReplResponses ==
    {AssistantMessage(Some(Msg("done")), None),
     AssistantMessage(Some(Msg("reading")), Some(<<readCall>>))}

\* startRepl after main has built the Agent: nothing typed yet
InitRepl ==
    /\ history = <<SystemMessage>>
    /\ owner = <<0>>
    /\ lastUserInput = None /\ lastInputFailed = FALSE
    /\ tasks = [t \in 1..MaxTasks |-> FreeTask]
    /\ replLines = 0
    /\ agentPc = "idle" /\ currentStep = 0 /\ toolIdx = 0
    /\ turnStart = 0 /\ requests = 0 /\ chatResult = NoSettlement
    /\ autoApproveCommands = TRUE /\ dryRun = FALSE /\ allowlistCommands = {}
    /\ pluginHandlers = {"my_plugin"} /\ auditPath = FALSE
    /\ files = [p \in Paths |-> IF p = "f" THEN Some(<<"a", "b", "a">>) ELSE None]
    /\ effects = <<>> /\ calls = 0 /\ last = NoLast
    /\ maxRetries = 3 /\ attempt = 0 /\ clientPc = "idle"
    /\ attemptLog = <<>> /\ waits = <<>> /\ clientResult = NoClientResult
    /\ wire = <<>> /\ pos = 0 /\ buffer = <<>> /\ streamContent = <<>>
    /\ toolCallsAccum = NoAccum /\ sink = <<>> /\ streamPc = "unused"
    /\ streamResult = NoStreamResult /\ plain = NoPlain /\ session = NoSession /\ sub = NoSub /\ grep = NoGrep

\* the line handlers that have not called agent.chat yet
freeTasks == {t \in DOMAIN tasks : tasks[t].pc = "free"}

\* agent.chat(input) up to its first await: push the user message, enter
\* the loop and issue the first request (agent:80-95)
startChat(t, input, via) ==
    /\ history' = Append(history, Message("user", Some(Msg(input))))
    /\ owner' = Append(owner, t)
    /\ tasks' = [tasks EXCEPT ![t] =
                    [pc |-> "awaitLLM", via |-> via, input |-> input,
                     afterFailure |-> lastInputFailed, currentStep |-> 1, toolIdx |-> 0,
                     response |-> NoMessage, settled |-> "pending"]]

\* rl.on('line') with a line of text (context.ts:1088-1096): readline calls
\* the handler for every line, whether an earlier handler has finished or not
ReplLine ==
    /\ replLines < MaxReplLines
    /\ freeTasks # {}
    /\ \E input \in UserInputs :
        /\ lastUserInput' = Some(input)
        /\ startChat(CHOOSE t \in freeTasks : \A u \in freeTasks : t <= u, input, "line")
    /\ lastInputFailed' = FALSE
    /\ replLines' = replLines + 1
    /\ UNCHANGED <<execVars, clientVars, grepVars, sessionVars, subVars, streamVars, agentPc, currentStep, toolIdx,
                   turnStart, requests, chatResult>>

\* the line /retry (context.ts:725-740)
ReplRetry ==
    /\ replLines < MaxReplLines
    /\ freeTasks # {}
    /\ IF lastUserInput = None
       THEN UNCHANGED <<history, owner, tasks>>
       ELSE startChat(CHOOSE t \in freeTasks : \A u \in freeTasks : t <= u,
                      lastUserInput[1], "retry")
    /\ replLines' = replLines + 1
    /\ UNCHANGED <<lastUserInput, lastInputFailed, execVars, clientVars, grepVars, sessionVars, subVars, streamVars,
                   agentPc, currentStep, toolIdx, turnStart, requests, chatResult>>

\* the line /clear (context.ts:594-598): clearHistory and forget the last input
ReplClear ==
    /\ replLines < MaxReplLines
    /\ history' = <<SystemMessage>>
    /\ owner' = <<0>>
    /\ lastUserInput' = None
    /\ lastInputFailed' = FALSE
    /\ replLines' = replLines + 1
    /\ UNCHANGED <<tasks, execVars, clientVars, grepVars, sessionVars, subVars, streamVars, agentPc, currentStep, toolIdx,
                   turnStart, requests, chatResult>>

\* the line /load <path> (context.ts:581-592): setHistory with the messages
\* of the file, or a message on the console when loadSession throws
ReplLoad ==
    /\ replLines < MaxReplLines
    /\ \/ \E messages \in LoadedSessions :
            /\ history' = messages
            /\ owner' = [i \in 1..Len(messages) |-> 0]
       \/ UNCHANGED <<history, owner>>
    /\ replLines' = replLines + 1
    /\ UNCHANGED <<lastUserInput, lastInputFailed, tasks, execVars, clientVars, grepVars, sessionVars, subVars, streamVars,
                   agentPc, currentStep, toolIdx, turnStart, requests, chatResult>>

\* the line /add <file> (context.ts:600-626): addToContext when the file exists
ReplAdd ==
    /\ replLines < MaxReplLines
    /\ \E exists \in BOOLEAN :
        IF exists
        THEN /\ history' = Append(history, AddedContext)
             /\ owner' = Append(owner, 0)
        ELSE UNCHANGED <<history, owner>>
    /\ replLines' = replLines + 1
    /\ UNCHANGED <<lastUserInput, lastInputFailed, tasks, execVars, clientVars, grepVars, sessionVars, subVars, streamVars,
                   agentPc, currentStep, toolIdx, turnStart, requests, chatResult>>

\* what the line handler does once its chat call has settled
\* (context.ts:745-748, 1104-1105)
afterChat(t, threw) ==
    IF threw THEN TRUE
    ELSE IF tasks[t].via = "retry" THEN FALSE ELSE lastInputFailed

\* the head of the while loop of the chat call of handler t
taskLoopHead(t, rec) ==
    IF rec.currentStep < maxSteps
    THEN /\ tasks' = [tasks EXCEPT ![t] =
                        [rec EXCEPT !.pc = "awaitLLM", !.currentStep = @ + 1, !.toolIdx = 0]]
         /\ lastInputFailed' = lastInputFailed
    ELSE /\ tasks' = [tasks EXCEPT ![t] =
                        [rec EXCEPT !.pc = "done", !.settled = "returned", !.toolIdx = 0]]
         /\ lastInputFailed' = afterChat(t, FALSE)

\* the transport request of handler t resolves (agent:95-121)
TaskLLMReturns ==
    \E t \in DOMAIN tasks :
        /\ tasks[t].pc = "awaitLLM"
        /\ \E response \in ReplResponses :
            /\ hasToolCalls(response) => Len(history) < MaxReplHistory
            /\ history' = Append(history, response)
            /\ owner' = Append(owner, t)
            /\ IF hasToolCalls(response)
               THEN /\ tasks' = [tasks EXCEPT ![t].pc = "awaitTool", ![t].toolIdx = 1,
                                              ![t].response = response]
                    /\ lastInputFailed' = lastInputFailed
               ELSE /\ tasks' = [tasks EXCEPT ![t].pc = "done", ![t].settled = "returned",
                                              ![t].response = response]
                    /\ lastInputFailed' = afterChat(t, FALSE)
        /\ UNCHANGED <<lastUserInput, replLines, execVars, clientVars, grepVars, sessionVars, subVars, streamVars, agentPc,
                       currentStep, toolIdx, turnStart, requests, chatResult>>

\* the transport request of handler t rejects (agent:123-130)
TaskLLMThrows ==
    \E t \in DOMAIN tasks :
        /\ tasks[t].pc = "awaitLLM"
        /\ tasks' = [tasks EXCEPT ![t].pc = "done", ![t].settled = "threw"]
        /\ lastInputFailed' = afterChat(t, TRUE)
        /\ UNCHANGED <<history, owner, lastUserInput, replLines, execVars, clientVars, grepVars, sessionVars, subVars,
                       streamVars, agentPc, currentStep, toolIdx, turnStart, requests,
                       chatResult>>

\* the execute call of handler t settles (agent:105-114)
TaskToolDone ==
    \E t \in DOMAIN tasks :
        /\ tasks[t].pc = "awaitTool"
        /\ LET toolCalls == tasks[t].response.tool_calls[1]
               call == toolCalls[tasks[t].toolIdx]
           IN  /\ Run(call, DefaultEnv)
               /\ IF last'.settled = "rejected"
                  THEN /\ tasks' = [tasks EXCEPT ![t].pc = "done", ![t].settled = "threw"]
                       /\ lastInputFailed' = afterChat(t, TRUE)
                       /\ UNCHANGED <<history, owner>>
                  ELSE /\ history' = Append(history, ToolMessage(last'.result))
                       /\ owner' = Append(owner, t)
                       /\ IF tasks[t].toolIdx < Len(toolCalls)
                          THEN /\ tasks' = [tasks EXCEPT ![t].toolIdx = @ + 1]
                               /\ lastInputFailed' = lastInputFailed
                          ELSE taskLoopHead(t, tasks[t])
        /\ UNCHANGED <<configVars, lastUserInput, replLines, clientVars, grepVars, sessionVars, subVars, streamVars, agentPc,
                       currentStep, toolIdx, turnStart, requests, chatResult>>

NextRepl ==
    \/ ReplLine \/ ReplRetry \/ ReplClear \/ ReplLoad \/ ReplAdd
    \/ TaskLLMReturns \/ TaskLLMThrows \/ TaskToolDone

\* one REPL session: input lines arrive at any time, pending chat calls
\* advance at any time
SpecRepl == InitRepl /\ [][NextRepl]_vars

----------------------------------------------------------------------------
(* Agent.chat with { stream: true, onChunk } (agent:89-95, llm-client.ts:75-77) *)

\* JSON.parse of the argument text a stream assembled: '{}' is an object
\* without properties, every other text of these streams is not JSON
argsOfText(text) == IF text = <<"{", "}">> THEN NoArgs("object") ELSE NoArgs("invalid")

\* the Message parseStreamResponse resolved with, as chat pushes it
streamedResponse(m) ==
    AssistantMessage(
        IF m.content = None THEN None ELSE Some(MsgText("${content}", m.content[1])),
        IF m.tool_calls = None THEN None
        ELSE Some([i \in 1..Len(m.tool_calls[1]) |->
                    ToolCall(m.tool_calls[1][i].id, m.tool_calls[1][i].function.name,
                             argsOfText(m.tool_calls[1][i].function.arguments))]))

\* a streamed answer in two content deltas
TextWires ==
    {joinLines(<<EventLine(Delta(Some(<<"H">>), None)), EventLine(Delta(Some(<<"H">>), None)),
                 <<Marker, Done>>>>, TRUE)}

\* streamed answers that ask for tools: content before and after the deltas
\* of one call, and two calls in one delta
ToolWires ==
    {joinLines(<<EventLine(Delta(Some(<<"H">>), None)),
                 EventLine(Delta(None, Some(<<TcDelta(Some(0), Some("a"), Some("read_file"),
                                                      Some(<<"{">>))>>))),
                 EventLine(Delta(None, Some(<<TcDelta(Some(0), None, None, Some(<<"}">>))>>))),
                 EventLine(Delta(Some(<<"H">>), None))>>, TRUE),
     joinLines(<<EventLine(Delta(Some(<<"H">>),
                                 Some(<<TcDelta(Some(1), Some("b"), None, Some(<<"x">>)),
                                        TcDelta(Some(0), Some("a"), None, Some(<<"{">>))>>))),
                 <<Marker, Done>>>>, TRUE)}

\* new Agent(llm, tools), chat called with a chunk sink
InitChatStream ==
    /\ history = <<SystemMessage>>
    /\ agentPc = "idle" /\ currentStep = 0 /\ toolIdx = 0
    /\ turnStart = 0 /\ requests = 0 /\ chatResult = NoSettlement
    /\ autoApproveCommands = TRUE /\ dryRun = FALSE /\ allowlistCommands = {}
    /\ pluginHandlers = {"my_plugin"} /\ auditPath = FALSE
    /\ files = [p \in Paths |-> IF p = "f" THEN Some(<<"a", "b", "a">>) ELSE None]
    /\ effects = <<>> /\ calls = 0 /\ last = NoLast
    /\ maxRetries = 1 /\ attempt = 0 /\ clientPc = "idle"
    /\ attemptLog = <<>> /\ waits = <<>> /\ clientResult = NoClientResult
    /\ wire = <<>> /\ pos = 0 /\ buffer = <<>> /\ streamContent = <<>>
    /\ toolCallsAccum = NoAccum /\ sink = <<>> /\ streamPc = "unused"
    /\ streamResult = NoStreamResult /\ plain = NoPlain /\ session = NoSession /\ sub = NoSub /\ grep = NoGrep
    /\ lastUserInput = None /\ lastInputFailed = FALSE /\ tasks = <<>>
    /\ owner = <<>> /\ replLines = 0

\* fetch resolved with the response of the step's request, and chat calls
\* parseStreamResponse(response, onChunk) (llm-client.ts:75-77); after a
\* stream that broke, this is the next attempt of the retry loop
StreamOpens ==
    /\ agentPc = "awaitLLM"
    /\ streamPc \in {"unused", "consumed", "rejected"}
    /\ wire' \in (IF currentStep <= MaxToolSteps THEN TextWires \cup ToolWires ELSE TextWires)
    /\ pos' = 0 /\ buffer' = <<>> /\ streamContent' = <<>> /\ toolCallsAccum' = NoAccum
    /\ streamPc' = "open" /\ streamResult' = NoStreamResult
    /\ plain' = [NoPlain EXCEPT !.sink = sink]
    /\ UNCHANGED <<sink, execVars, clientVars, grepVars, sessionVars, subVars, agentVars, replVars>>

\* stream.on('error', reject): the awaited promise rejects inside the try
\* block; a retryable error starts the next attempt, any other makes
\* llm.chat, and with it Agent.chat, throw
StreamFails ==
    /\ agentPc = "awaitLLM"
    /\ streamPc = "open"
    /\ streamPc' = "rejected"
    /\ \/ /\ attempt < maxRetries
          /\ attempt' = attempt + 1
          /\ UNCHANGED <<agentPc, chatResult>>
       \/ /\ attempt' = 0
          /\ agentPc' = "idle"
          /\ chatResult' = [kind |-> "threw", value |-> None, cause |-> "transport"]
    /\ UNCHANGED <<wire, pos, buffer, streamContent, toolCallsAccum, sink, streamResult,
                   plain, history, currentStep, toolIdx, turnStart, requests,
                   maxRetries, clientPc, attemptLog, waits, clientResult,
                   execVars, grepVars, sessionVars, subVars, replVars>>

\* a chat that takes what has arrived so far for the response and goes on
\* while the stream is still open
LLMReturnsEarly ==
    /\ agentPc = "awaitLLM"
    /\ streamPc = "open"
    /\ pos > 0
    /\ LET response == streamedResponse(streamMessage(streamContent, toolCallsAccum))
       IN  /\ history' = Append(history, response)
           /\ IF hasToolCalls(response)
              THEN /\ agentPc' = "tools"
                   /\ toolIdx' = 1
                   /\ chatResult' = chatResult
              ELSE /\ agentPc' = "idle"
                   /\ toolIdx' = 0
                   /\ chatResult' = [kind |-> "returned", cause |-> "no tool calls",
                                      value |-> Some(contentOrEmpty(response))]
    /\ attempt' = 0
    /\ UNCHANGED <<wire, pos, buffer, streamContent, toolCallsAccum, sink, streamResult,
                   streamPc, plain, currentStep, turnStart, requests,
                   maxRetries, clientPc, attemptLog, waits, clientResult,
                   execVars, grepVars, sessionVars, subVars, replVars>>

\* await this.llm.chat(...) resolves with the message the 'end' handler
\* assembled: push it, then dispatch its tool calls or return its content
LLMReturnsStream ==
    /\ agentPc = "awaitLLM"
    /\ streamPc = "resolved"
    /\ LET response == streamedResponse(streamResult)
       IN  /\ history' = Append(history, response)
           /\ IF hasToolCalls(response)
              THEN /\ agentPc' = "tools"
                   /\ toolIdx' = 1
                   /\ chatResult' = chatResult
              ELSE /\ agentPc' = "idle"
                   /\ toolIdx' = 0
                   /\ chatResult' = [kind |-> "returned", cause |-> "no tool calls",
                                      value |-> Some(contentOrEmpty(response))]
    /\ streamPc' = "consumed"
    /\ attempt' = 0
    /\ UNCHANGED <<wire, pos, buffer, streamContent, toolCallsAccum, sink, streamResult,
                   plain, currentStep, turnStart, requests,
                   maxRetries, clientPc, attemptLog, waits, clientResult,
                   execVars, grepVars, sessionVars, subVars, replVars>>

NextChatStream ==
    Chat \/ StreamOpens \/ StreamData \/ StreamEnd \/ StreamFails \/ LLMReturnsStream
        \/ ExecTool

\* one Agent in streaming mode, every way of cutting every stream
SpecChatStream == InitChatStream /\ [][NextChatStream]_vars

----------------------------------------------------------------------------
(* /agent and runSubAgent (context.ts:938-974, agents.ts:130-206) *)

\* the names of TOOLS_DEFINITION (tools.ts:28-216)
ToolsDefinitionNames ==
    {"write_file", "read_file", "list_files", "run_command", "git_status", "git_diff",
     "git_add", "git_commit", "git_stash", "grep_search", "edit_file", "create_directory"}

\* getAgentTools: the definitions whose name agent.tools includes
getAgentTools(agent) == {name \in ToolsDefinitionNames : name \in agent.tools}

\* the tools of a request: chat sends options.tools ?? TOOLS_DEFINITION
\* (llm-client.ts:33), and runSubAgent passes undefined for an empty list
toolsSent(tools) == IF tools = {} THEN ToolsDefinitionNames ELSE tools

\* the tools lists of the reviewer and the tester (agents.ts:32, 51)
ReviewerTools == {"read_file", "grep_search", "list_files"}
TesterTools == {"read_file", "write_file", "grep_search", "list_files", "run_command"}
SubAgents ==
    {[tools |-> t, maxSteps |-> m] : t \in {ReviewerTools, TesterTools}, m \in 1..MaxSubSteps}

\* the tool calls a response of the model can carry
SubToolCalls ==
    {<<ToolCall(Some("s1"), "read_file", PathArgs("f"))>>,
     <<ToolCall(Some("s2"), "write_file", WriteArgs("g", <<"b">>))>>,
     <<ToolCall(Some("s3"), "run_command", CommandArgs(rmCmd))>>,
     <<ToolCall(Some("s4"), "run_command", CommandArgs(gitStatusCmd)),
       ToolCall(Some("s5"), "read_file", PathArgs("f"))>>}

SubResponses ==
    {AssistantMessage(Some(Msg("answer")), None), AssistantMessage(None, None),
     AssistantMessage(None, Some(<<>>))}
    \cup {AssistantMessage(None, Some(tcs)) : tcs \in SubToolCalls}

\* what the environment answers to a tool call of the run: the user types y
\* or n at a prompt, the file system and the shell succeed or fail
SubEnvs(call) == {env \in EnvsFor(call) : env.answer \in {<<"y">>, <<"n">>}}

\* main has built the process's ToolExecutor from the options
\* (context.ts:1147-1153), and the REPL waits for a command
InitSub ==
    /\ sub \in {[NoSub EXCEPT !.pc = "repl",
                              !.options = [autoApprove |-> y, dryRun |-> d, allowCommands |-> raw]] :
                    y \in BOOLEAN, d \in BOOLEAN, raw \in AllowlistOptions}
    /\ autoApproveCommands = sub.options.autoApprove
    /\ dryRun = sub.options.dryRun
    /\ allowlistCommands = allowlistSet(sub.options.allowCommands)
    /\ pluginHandlers = {"my_plugin"}
    /\ auditPath = FALSE
    /\ files = [p \in Paths |-> IF p = "f" THEN Some(<<"a", "b", "a">>) ELSE None]
    /\ effects = <<>> /\ calls = 0 /\ last = NoLast
    /\ maxRetries = 3 /\ attempt = 0 /\ clientPc = "idle"
    /\ attemptLog = <<>> /\ waits = <<>> /\ clientResult = NoClientResult
    /\ history = <<>> /\ agentPc = "unbuilt" /\ currentStep = 0 /\ toolIdx = 0
    /\ turnStart = 0 /\ requests = 0 /\ chatResult = NoSettlement
    /\ wire = <<>> /\ pos = 0 /\ buffer = <<>> /\ streamContent = <<>>
    /\ toolCallsAccum = NoAccum /\ sink = <<>> /\ streamPc = "unused"
    /\ streamResult = NoStreamResult /\ plain = NoPlain /\ session = NoSession /\ grep = NoGrep
    /\ lastUserInput = None /\ lastInputFailed = FALSE /\ tasks = <<>>
    /\ owner = <<>> /\ replLines = 0

subIdle == <<clientVars, agentPc, currentStep, toolIdx, turnStart, requests, chatResult,
             streamVars, replVars, grepVars, sessionVars>>

\* the main agent has the process's ToolExecutor execute a tool call
MainToolCall ==
    /\ sub.pc = "repl" /\ calls = 0
    /\ \E tcs \in SubToolCalls : \E env \in SubEnvs(tcs[1]) : Run(tcs[1], env)
    /\ UNCHANGED <<configVars, history, sub, subIdle>>

\* /agent <name> <task>: a new ToolExecutor({ autoApproveCommands:
\* options.autoApprove, quiet: true }) replaces the dispatcher in use, and
\* runSubAgent starts with the system prompt and the task
AgentCommand ==
    /\ sub.pc = "repl"
    /\ \E agent \in SubAgents :
        sub' = [sub EXCEPT !.pc = "loop", !.agent = agent, !.steps = 0, !.firstCall = calls + 1]
    /\ autoApproveCommands' = sub.options.autoApprove
    /\ dryRun' = FALSE
    /\ allowlistCommands' = {}
    /\ pluginHandlers' = {}
    /\ history' = <<Message("system", Some(Msg("${agent.systemPrompt}"))),
                    Message("user", Some(Msg("${task}")))>>
    /\ UNCHANGED <<auditPath, files, effects, calls, last, subIdle>>

\* the head of the while loop: one more request with the agent's tools, or
\* the summary request once maxSteps is reached
SubRequest ==
    /\ sub.pc = "loop"
    /\ IF sub.steps < sub.agent.maxSteps
       THEN /\ sub' = [sub EXCEPT
                        !.steps = @ + 1,
                        !.requests = Append(@, [kind |-> "step",
                                                tools |-> toolsSent(getAgentTools(sub.agent))]),
                        !.pc = "awaitChat"]
            /\ UNCHANGED history
       ELSE /\ sub' = [sub EXCEPT
                        !.requests = Append(@, [kind |-> "summary", tools |-> toolsSent({})]),
                        !.pc = "awaitSummary"]
            /\ history' = Append(history,
                    Message("user", Some(Msg("Please provide a summary of what you found or accomplished."))))
    /\ UNCHANGED <<execVars, subIdle>>

\* llm.chat resolves inside the loop
SubChatReturns ==
    /\ sub.pc = "awaitChat"
    /\ \E response \in SubResponses :
        /\ history' = Append(history, response)
        /\ sub' = IF hasToolCalls(response)
                  THEN [sub EXCEPT !.pending = response.tool_calls[1], !.pc = "tools"]
                  ELSE [sub EXCEPT
                            !.pc = "returned",
                            !.result = IF response.content # None THEN "${response.content}"
                                       ELSE "Agent completed without response."]
    /\ UNCHANGED <<execVars, subIdle>>

\* llm.chat rejects: the catch block returns the error text
SubChatFails ==
    /\ sub.pc = "awaitChat"
    /\ sub' = [sub EXCEPT !.pc = "returned", !.result = "Agent error: ${error.message}"]
    /\ UNCHANGED <<execVars, history, subIdle>>

\* toolExecutor.execute(toolCall) for the next tool call of the response
SubExec ==
    /\ sub.pc = "tools"
    /\ \E env \in SubEnvs(Head(sub.pending)) :
        LET toolCall == Head(sub.pending)
            r == execute(toolCall, env)
        IN  /\ Run(toolCall, env)
            /\ IF r.settled = "rejected"
               THEN /\ sub' = [sub EXCEPT
                                !.executed = Append(@, toolCall.function.name),
                                !.pc = "returned",
                                !.result = "Agent error: ${error.message}"]
                    /\ UNCHANGED history
               ELSE /\ sub' = [sub EXCEPT
                                !.executed = Append(@, toolCall.function.name),
                                !.pending = Tail(@),
                                !.pc = IF Tail(sub.pending) = <<>> THEN "loop" ELSE "tools"]
                    /\ history' = Append(history, ToolMessage(r.result))
    /\ UNCHANGED <<configVars, subIdle>>

\* the summary request resolves: its content is returned, tool calls ignored
SubSummaryReturns ==
    /\ sub.pc = "awaitSummary"
    /\ \E summary \in SubResponses :
        sub' = [sub EXCEPT
                    !.pc = "returned",
                    !.result = IF summary.content # None THEN "${summary.content}"
                               ELSE "Agent completed without summary."]
    /\ UNCHANGED <<execVars, history, subIdle>>

SubSummaryFails ==
    /\ sub.pc = "awaitSummary"
    /\ sub' = [sub EXCEPT
                !.pc = "returned",
                !.result = "Agent completed but failed to summarize: ${error.message}"]
    /\ UNCHANGED <<execVars, history, subIdle>>

NextSub ==
    MainToolCall \/ AgentCommand \/ SubRequest \/ SubChatReturns \/ SubChatFails
        \/ SubExec \/ SubSummaryReturns \/ SubSummaryFails

\* one process: a tool call of the main agent, then one /agent run
SpecSub == InitSub /\ [][NextSub]_vars

----------------------------------------------------------------------------
(* Session persistence: saveSession, loadSession (part_002:5-21), /save and
   /load (context.ts:574-593), --session (context.ts:1158-1167) *)

\* the characters of the property names and role names of a Message
chars(str) ==
    CASE str = "role" -> <<"r", "o", "l", "e">>
      [] str = "content" -> <<"c", "o", "n", "t", "e", "n", "t">>
      [] str = "tool_calls" -> <<"t", "o", "o", "l", "_", "c", "a", "l", "l", "s">>
      [] str = "tool_call_id" -> <<"t", "o", "o", "l", "_", "c", "a", "l", "l", "_", "i", "d">>
      [] str = "name" -> <<"n", "a", "m", "e">>
      [] str = "id" -> <<"i", "d">>
      [] str = "type" -> <<"t", "y", "p", "e">>
      [] str = "function" -> <<"f", "u", "n", "c", "t", "i", "o", "n">>
      [] str = "arguments" -> <<"a", "r", "g", "u", "m", "e", "n", "t", "s">>
      [] str = "system" -> <<"s", "y", "s", "t", "e", "m">>
      [] str = "user" -> <<"u", "s", "e", "r">>
      [] str = "assistant" -> <<"a", "s", "s", "i", "s", "t", "a", "n", "t">>
      [] str = "tool" -> <<"t", "o", "o", "l">>
      [] OTHER -> <<>>

Roles == {"system", "user", "assistant", "tool"}

\* JSON values: null, a string, an array of values, an object of members
JNull == [t |-> "null", s |-> <<>>, items |-> <<>>]
JStr(s) == [t |-> "string", s |-> s, items |-> <<>>]
JArr(items) == [t |-> "array", s |-> <<>>, items |-> items]
JObj(members) == [t |-> "object", s |-> <<>>, items |-> members]
Member(key, value) == [key |-> key, value |-> value]

\* a string literal written without escapes
quoteRaw(s) == <<"\"">> \o s \o <<"\"">>

\* JSON.stringify of a string: the quote, the backslash and the line break
\* are written as escapes
escapeChar(c) ==
    CASE c = "\"" -> <<"\\", "\"">>
      [] c = "\\" -> <<"\\", "\\">>
      [] c = "\n" -> <<"\\", "n">>
      [] OTHER -> <<c>>

quote(s) == <<"\"">> \o concat([i \in 1..Len(s) |-> escapeChar(s[i])]) \o <<"\"">>

\* a line break and the indentation of JSON.stringify(value, null, 2)
newline(indent) == <<"\n">> \o [i \in 1..indent |-> " "]

RECURSIVE joinComma(_)
joinComma(parts) ==
    IF Len(parts) = 1 THEN parts[1]
    ELSE parts[1] \o <<",">> \o joinComma(Tail(parts))

\* JSON.stringify(value, null, 2)
RECURSIVE stringify(_, _)
stringify(v, indent) ==
    CASE v.t = "null" -> <<"n", "u", "l", "l">>
      [] v.t = "string" -> quote(v.s)
      [] v.t = "array" ->
            IF v.items = <<>> THEN <<"[", "]">>
            ELSE <<"[">>
                 \o joinComma([i \in 1..Len(v.items) |->
                        newline(indent + 2) \o stringify(v.items[i], indent + 2)])
                 \o newline(indent) \o <<"]">>
      [] OTHER ->
            IF v.items = <<>> THEN <<"{", "}">>
            ELSE <<"{">>
                 \o joinComma([i \in 1..Len(v.items) |->
                        newline(indent + 2) \o quote(v.items[i].key) \o <<":", " ">>
                        \o stringify(v.items[i].value, indent + 2)])
                 \o newline(indent) \o <<"}">>

\* JSON.parse: a recursive descent over the text from position i on; ok is
\* FALSE where JSON.parse throws a SyntaxError
ParseFailed == [ok |-> FALSE, value |-> JNull, next |-> 0]
Parsed(value, next) == [ok |-> TRUE, value |-> value, next |-> next]

RECURSIVE skipWhitespace(_, _)
skipWhitespace(text, i) ==
    IF i <= Len(text) /\ text[i] \in {" ", "\n"} THEN skipWhitespace(text, i + 1) ELSE i

\* the rest of a string literal whose opening quote has been read
RECURSIVE parseString(_, _, _)
parseString(text, i, acc) ==
    IF i > Len(text) \/ text[i] = "\n" THEN ParseFailed
    ELSE IF text[i] = "\"" THEN Parsed(JStr(acc), i + 1)
    ELSE IF text[i] = "\\"
    THEN IF i + 1 > Len(text) THEN ParseFailed
         ELSE IF text[i + 1] \in {"\"", "\\"}
         THEN parseString(text, i + 2, Append(acc, text[i + 1]))
         ELSE IF text[i + 1] = "n" THEN parseString(text, i + 2, Append(acc, "\n"))
         ELSE ParseFailed
    ELSE parseString(text, i + 1, Append(acc, text[i]))

RECURSIVE parseValue(_, _)
RECURSIVE parseItems(_, _, _)
RECURSIVE parseMembers(_, _, _)

parseValue(text, i) ==
    LET j == skipWhitespace(text, i)
    IN  IF j > Len(text) THEN ParseFailed
        ELSE IF text[j] = "\"" THEN parseString(text, j + 1, <<>>)
        ELSE IF text[j] = "[" THEN parseItems(text, j + 1, <<>>)
        ELSE IF text[j] = "{" THEN parseMembers(text, j + 1, <<>>)
        ELSE IF j + 3 <= Len(text) /\ SubSeq(text, j, j + 3) = <<"n", "u", "l", "l">>
        THEN Parsed(JNull, j + 4)
        ELSE ParseFailed

\* the elements of an array after '[' or after a comma
parseItems(text, i, acc) ==
    LET j == skipWhitespace(text, i)
    IN  IF acc = <<>> /\ j <= Len(text) /\ text[j] = "]" THEN Parsed(JArr(<<>>), j + 1)
        ELSE LET r == parseValue(text, j)
                 k == skipWhitespace(text, r.next)
             IN  IF ~r.ok \/ k > Len(text) THEN ParseFailed
                 ELSE IF text[k] = "," THEN parseItems(text, k + 1, Append(acc, r.value))
                 ELSE IF text[k] = "]" THEN Parsed(JArr(Append(acc, r.value)), k + 1)
                 ELSE ParseFailed

\* the members of an object after '{' or after a comma
parseMembers(text, i, acc) ==
    LET j == skipWhitespace(text, i)
    IN  IF j > Len(text) THEN ParseFailed
        ELSE IF acc = <<>> /\ text[j] = "}" THEN Parsed(JObj(<<>>), j + 1)
        ELSE IF text[j] # "\"" THEN ParseFailed
        ELSE LET key == parseString(text, j + 1, <<>>)
                 c == skipWhitespace(text, key.next)
             IN  IF ~key.ok \/ c > Len(text) THEN ParseFailed
                 ELSE IF text[c] # ":" THEN ParseFailed
                 ELSE LET r == parseValue(text, c + 1)
                          k == skipWhitespace(text, r.next)
                          members == Append(acc, Member(key.value.s, r.value))
                      IN  IF ~r.ok \/ k > Len(text) THEN ParseFailed
                          ELSE IF text[k] = "," THEN parseMembers(text, k + 1, members)
                          ELSE IF text[k] = "}" THEN Parsed(JObj(members), k + 1)
                          ELSE ParseFailed

\* JSON.parse(raw): one value and nothing but whitespace after it
parseJSON(text) ==
    LET r == parseValue(text, 1)
    IN  IF r.ok /\ skipWhitespace(text, r.next) > Len(text) THEN r ELSE ParseFailed

\* what JSON.stringify sees of a tool call and of a Message: a property
\* whose value is undefined is left out, null is written
callToJSON(tc) ==
    JObj(<<Member(chars("id"), JStr(tc.id)),
           Member(chars("type"), JStr(chars("function"))),
           Member(chars("function"),
                  JObj(<<Member(chars("name"), JStr(tc.function.name)),
                         Member(chars("arguments"), JStr(tc.function.arguments))>>))>>)

messageToJSON(m) ==
    JObj(<<Member(chars("role"), JStr(chars(m.role))),
           Member(chars("content"), IF m.content = None THEN JNull ELSE JStr(m.content[1]))>>
         \o (IF m.tool_calls = None THEN <<>>
             ELSE <<Member(chars("tool_calls"),
                           JArr([i \in 1..Len(m.tool_calls[1]) |->
                                    callToJSON(m.tool_calls[1][i])]))>>)
         \o (IF m.tool_call_id = None THEN <<>>
             ELSE <<Member(chars("tool_call_id"), JStr(m.tool_call_id[1]))>>)
         \o (IF m.name = None THEN <<>>
             ELSE <<Member(chars("name"), JStr(m.name[1]))>>))

\* JSON.stringify(messages, null, 2)
stringifyMessages(messages) ==
    stringify(JArr([i \in 1..Len(messages) |-> messageToJSON(messages[i])]), 0)

\* object[key]: the value of the last member with that key, undefined (None)
\* without one
getMember(v, key) ==
    LET hits == {i \in 1..Len(v.items) : v.items[i].key = chars(key)}
    IN  IF v.t # "object" \/ hits = {} THEN None
        ELSE Some(v.items[CHOOSE i \in hits : \A j \in hits : j <= i].value)

\* a property read as a string: None for null and undefined
stringMember(v, key) ==
    LET m == getMember(v, key)
    IN  IF m # None /\ m[1].t = "string" THEN Some(m[1].s) ELSE None

textOf(optional) == IF optional = None THEN <<>> ELSE optional[1]

callFromJSON(v) ==
    LET f == getMember(v, "function")
    IN  [id |-> textOf(stringMember(v, "id")),
         function |-> [name |-> IF f = None THEN <<>> ELSE textOf(stringMember(f[1], "name")),
                       arguments |-> IF f = None THEN <<>>
                                     ELSE textOf(stringMember(f[1], "arguments"))]]

\* an element of the parsed array read as a Message
messageFromJSON(v) ==
    LET role == stringMember(v, "role")
        calls_ == getMember(v, "tool_calls")
    IN  [role |-> IF role # None /\ \E r \in Roles : chars(r) = role[1]
                  THEN CHOOSE r \in Roles : chars(r) = role[1]
                  ELSE "none",
         content |-> stringMember(v, "content"),
         tool_calls |-> IF calls_ # None /\ calls_[1].t = "array"
                        THEN Some([i \in 1..Len(calls_[1].items) |->
                                    callFromJSON(calls_[1].items[i])])
                        ELSE None,
         tool_call_id |-> stringMember(v, "tool_call_id"),
         name |-> stringMember(v, "name")]

SessionLoaded(messages) == [threw |-> "", messages |-> messages]
SessionThrew(error) == [threw |-> error, messages |-> <<>>]

\* a loadSession that takes every JSON value, a value that is no array as an
\* empty list
loadSessionAnyValue(file) ==
    IF file = None THEN SessionThrew("Session file not found: ${fullPath}")
    ELSE LET data == parseJSON(file[1])
         IN  IF ~data.ok THEN SessionThrew("SyntaxError")
             ELSE IF data.value.t # "array" THEN SessionLoaded(<<>>)
             ELSE SessionLoaded([i \in 1..Len(data.value.items) |->
                                    messageFromJSON(data.value.items[i])])

\* loadSession(filePath); file is the content of the file, None without one
loadSession(file) ==
    IF file = None THEN SessionThrew("Session file not found: ${fullPath}")
    ELSE LET data == parseJSON(file[1])
         IN  IF ~data.ok THEN SessionThrew("SyntaxError")
             ELSE IF data.value.t # "array"
             THEN SessionThrew("Invalid session format: expected array of messages")
             ELSE SessionLoaded([i \in 1..Len(data.value.items) |->
                                    messageFromJSON(data.value.items[i])])

\* messages as the Agent builds them (part_000:61-62, 80, 98, 117-122)
SessionSystem == Message("system", Some(<<"S">>))
SessionUser == Message("user", Some(<<"s", "a", "y", " ", "\"", "h", "i", "\"", "\n", "\\", "o">>))
SessionCall ==
    [id |-> <<"c", "1">>,
     function |-> [name |-> <<"r", "f">>,
                   arguments |-> <<"{", "\"", "p", "\"", ":", "\"", "f", "\"", "}">>]]
SessionToolResult ==
    [role |-> "tool", content |-> Some(<<"a", "[", "]", ",">>), tool_calls |-> None,
     tool_call_id |-> Some(<<"c", "1">>), name |-> Some(<<"r", "f">>)]

\* a turn with a tool step, and turns that end at once with a text, with no
\* content, with an empty tool call list
FullHistory ==
    <<SessionSystem, SessionUser, AssistantMessage(None, Some(<<SessionCall>>)),
      SessionToolResult, AssistantMessage(Some(<<"o", "k", "}">>), None)>>

Histories ==
    {SubSeq(FullHistory, 1, n) : n \in 1..Len(FullHistory)}
    \cup {<<SessionSystem, SessionUser, a>> :
            a \in {AssistantMessage(None, None), AssistantMessage(None, Some(<<>>)),
                   AssistantMessage(Some(<<>>), None)}}

\* what the session file holds when the process starts: nothing, an earlier
\* session, the empty array, a text cut short, a text that is no JSON, a
\* JSON value that is no array
SessionFiles ==
    {[kind |-> "missing", file |-> None],
     [kind |-> "array", file |-> Some(stringifyMessages(FullHistory))],
     [kind |-> "array", file |-> Some(<<"[", "]">>)],
     [kind |-> "invalid",
      file |-> Some(SubSeq(stringifyMessages(FullHistory), 1,
                           Len(stringifyMessages(FullHistory)) - 1))],
     [kind |-> "invalid", file |-> Some(<<"[", "n", "u", "l", "l", ",", "]">>)],
     [kind |-> "invalid", file |-> Some(<<>>)],
     [kind |-> "nonarray", file |-> Some(<<"{", "}">>)],
     [kind |-> "nonarray", file |-> Some(<<"n", "u", "l", "l">>)],
     [kind |-> "nonarray", file |-> Some(<<"\"", "[", "]", "\"">>)]}

\* new Agent(...): the history holds the system prompt; the session file is
\* whatever the disk holds
InitSession ==
    /\ session \in {[NoSession EXCEPT !.pc = "start", !.sessionPath = given,
                                      !.file = f.file, !.kind = f.kind] :
                        given \in BOOLEAN, f \in SessionFiles}
    /\ history = <<SessionSystem>>
    /\ autoApproveCommands = FALSE /\ dryRun = FALSE /\ allowlistCommands = {}
    /\ pluginHandlers = {} /\ auditPath = FALSE
    /\ files = [p \in Paths |-> None] /\ effects = <<>> /\ calls = 0 /\ last = NoLast
    /\ maxRetries = 3 /\ attempt = 0 /\ clientPc = "idle"
    /\ attemptLog = <<>> /\ waits = <<>> /\ clientResult = NoClientResult
    /\ agentPc = "unbuilt" /\ currentStep = 0 /\ toolIdx = 0
    /\ turnStart = 0 /\ requests = 0 /\ chatResult = NoSettlement
    /\ wire = <<>> /\ pos = 0 /\ buffer = <<>> /\ streamContent = <<>>
    /\ toolCallsAccum = NoAccum /\ sink = <<>> /\ streamPc = "unused"
    /\ streamResult = NoStreamResult /\ plain = NoPlain /\ sub = NoSub /\ grep = NoGrep
    /\ lastUserInput = None /\ lastInputFailed = FALSE /\ tasks = <<>>
    /\ owner = <<>> /\ replLines = 0

sessionIdle == <<execVars, clientVars, agentPc, currentStep, toolIdx, turnStart, requests,
                 chatResult, streamVars, replVars, grepVars, subVars>>

\* main, step 4: with --session the file is loaded into the Agent, and a
\* failure ends the process with exit code 1
SessionStartup ==
    /\ session.pc = "start"
    /\ LET loaded == loadSession(session.file)
       IN  IF ~session.sessionPath
           THEN /\ session' = [session EXCEPT !.pc = "repl", !.command = "startup",
                                              !.outcome = "none", !.before = history]
                /\ UNCHANGED history
           ELSE IF loaded.threw # ""
           THEN /\ session' = [session EXCEPT !.pc = "exited", !.command = "startup",
                                              !.outcome = "failed", !.before = history]
                /\ UNCHANGED history
           ELSE /\ session' = [session EXCEPT !.pc = "repl", !.command = "startup",
                                              !.outcome = "loaded", !.before = history]
                /\ history' = loaded.messages
    /\ UNCHANGED sessionIdle

\* /save <path>: writeFileSync(sessionPath, JSON.stringify(agent.getHistory(), null, 2))
SessionSave ==
    /\ session.pc = "repl" /\ session.commands < MaxSessionCommands
    /\ session' = [session EXCEPT
                    !.file = Some(stringifyMessages(history)), !.kind = "array",
                    !.command = "save", !.outcome = "saved", !.before = history,
                    !.saved = Some(history), !.commands = @ + 1]
    /\ UNCHANGED <<history, sessionIdle>>

\* /load <path>: agent.setHistory(loadSession(path)), a failure is printed
SessionLoad ==
    /\ session.pc = "repl" /\ session.commands < MaxSessionCommands
    /\ LET loaded == loadSession(session.file)
       IN  IF loaded.threw # ""
           THEN /\ session' = [session EXCEPT !.command = "load", !.outcome = "failed",
                                              !.before = history, !.commands = @ + 1]
                /\ UNCHANGED history
           ELSE /\ session' = [session EXCEPT !.command = "load", !.outcome = "loaded",
                                              !.before = history, !.commands = @ + 1]
                /\ history' = loaded.messages
    /\ UNCHANGED sessionIdle

\* a chat turn appends its messages to the history
SessionChat ==
    /\ session.pc = "repl" /\ session.commands < MaxSessionCommands
    /\ \E h \in Histories :
        /\ Len(h) > Len(history) /\ SubSeq(h, 1, Len(history)) = history
        /\ history' = h
    /\ session' = [session EXCEPT !.command = "chat", !.outcome = "none",
                                  !.before = history, !.commands = @ + 1]
    /\ UNCHANGED sessionIdle

NextSession == SessionStartup \/ SessionSave \/ SessionLoad \/ SessionChat

SpecSession == InitSession /\ [][NextSession]_vars

----------------------------------------------------------------------------
(* Properties of ToolExecutor, checked under SpecExec *)

\* the effects that the n-th execute call produced
effectsOf(n) == {i \in 1..Len(effects) : effects[i].callNo = n}

shellRan(n) ==
    \E i \in effectsOf(n) : effects[i].kind = "shell" /\ effects[i].tag = "exec"

prompted(n) == \E i \in effectsOf(n) : effects[i].kind = "prompt"

\* the latest call is a shell-command call whose arguments carry a command
lastIsCommand ==
    /\ calls > 0
    /\ last.call.function.name \in CommandNames
    /\ last.call.function.arguments.json = "object"
    /\ last.call.function.arguments.command # None

lastCommand == last.call.function.arguments.command[1]

\* the lower-cased first word of each command of the model, written out
BaseTokenOf(c) ==
    CASE c = gitStatusCmd -> <<"g", "i", "t">>
      [] c = GITStatusCmd -> <<"g", "i", "t">>
      [] c = rmCmd -> <<"r", "m">>
      [] c = chainedCmd -> <<"g", "i", "t">>

YesAnswers == {<<"y">>, <<"Y">>}

\* C2: over any sequence of run_command calls, the shell runs a command only
\* for a call that was auto-approved (auto-approve on, allowlist empty or the
\* base token in it) or whose own prompt was answered yes; dry-run never runs
\* the shell, and with auto-approve off every command, allowlisted or not, is
\* prompted for.
C2_ShellOnlyWhenApproved ==
    /\ \A i \in 1..Len(effects) :
         (effects[i].kind = "shell" /\ effects[i].tag = "exec") =>
            /\ ~dryRun
            /\ \/ /\ autoApproveCommands
                  /\ \/ allowlistCommands = {}
                     \/ BaseTokenOf(effects[i].text) \in allowlistCommands
               \/ /\ ~autoApproveCommands
                  /\ \E j \in 1..(i - 1) :
                        /\ effects[j].kind = "prompt"
                        /\ effects[j].callNo = effects[i].callNo
                        /\ effects[j].text \in YesAnswers
    /\ (~autoApproveCommands /\ ~dryRun /\ lastIsCommand) => prompted(calls)

\* an approved first call, then an allowlisted command that is prompted for
\* again and, denied, does not run
C2_Witness ==
    /\ ~autoApproveCommands /\ ~dryRun /\ allowlistCommands # {}
    /\ calls = 2 /\ shellRan(1)
    /\ lastIsCommand /\ lastCommand = gitStatusCmd
    /\ prompted(2) /\ ~shellRan(2)

\* C3: execute never rejects, whatever the call, the effect or the handler
\* does: it always resolves with a ToolResult.
C3_ExecuteNeverRejects == calls > 0 => last.settled = "resolved"

DryRunMsg == "[DRY-RUN] Would execute: ${name}(${JSON.stringify(args)})"

\* C7: with dry-run set, a call whose arguments decode applies no effect
\* (no file change, shell, prompt or plugin handler), returns the dry-run text
\* and makes one audit record when an audit path is configured.
C7_DryRunAppliesNothing ==
    (dryRun /\ calls > 0 /\ last.call.function.arguments.json # "invalid") =>
        /\ last.settled = "resolved"
        /\ last.result.content = Msg(DryRunMsg)
        /\ files = last.filesBefore
        /\ \A i \in effectsOf(calls) : effects[i].kind = "audit" /\ effects[i].tag = "result"
        /\ Cardinality(effectsOf(calls)) = IF auditPath THEN 1 ELSE 0

\* a dry-run of rm -rf / that was audited
C7_Witness ==
    /\ dryRun /\ auditPath
    /\ lastIsCommand /\ lastCommand = rmCmd
    /\ \E i \in effectsOf(calls) : effects[i].kind = "audit"

NotInAllowlistMsg == "Command ${cmdBase} not in allowlist. Use --allow to add."

\* C8: with auto-approve on and a non-empty allowlist (stored lower-cased and
\* trimmed), a command whose lower-cased first token is a member runs without
\* a prompt; any other command is refused with the explanatory text, without
\* a prompt and without reaching the shell.
C8_AllowlistGate ==
    /\ \A e \in allowlistCommands : e = <<"g", "i", "t">>
    /\ (autoApproveCommands /\ allowlistCommands # {} /\ ~dryRun /\ lastIsCommand) =>
          /\ ~prompted(calls)
          /\ IF BaseTokenOf(lastCommand) \in allowlistCommands
             THEN \E i \in effectsOf(calls) :
                    /\ effects[i].kind = "shell" /\ effects[i].tag = "exec"
                    /\ effects[i].text = lastCommand
             ELSE /\ ~shellRan(calls)
                  /\ last.result.content.msg = NotInAllowlistMsg

\* 'GIT status' runs under the allowlist {git}
C8_Witness ==
    /\ autoApproveCommands /\ allowlistCommands # {} /\ ~dryRun
    /\ lastIsCommand /\ lastCommand = GITStatusCmd
    /\ shellRan(calls)

DeniedMsg == "User denied command execution."

\* the answer given at the prompt of the n-th call
answerOf(n) == effects[CHOOSE i \in effectsOf(n) : effects[i].kind = "prompt"].text

\* the outcome of a prompted call when exactly the answers in `yes` approve
promptDecides(yes) ==
    (~autoApproveCommands /\ ~dryRun /\ lastIsCommand) =>
        /\ Cardinality({i \in effectsOf(calls) : effects[i].kind = "prompt"}) = 1
        /\ IF answerOf(calls) \in yes
           THEN \E i \in effectsOf(calls) :
                    /\ effects[i].kind = "shell" /\ effects[i].tag = "exec"
                    /\ effects[i].text = lastCommand
           ELSE /\ ~shellRan(calls)
                /\ last.result.content = Msg(DeniedMsg)

\* C9 as claimed: with auto-approve off only the answer "y" runs the command;
\* every other answer, "Y" included, is denied and the shell is not invoked.
C9_OnlyLowercaseYRuns == promptDecides({<<"y">>})

\* C9 as amended: the answer is compared case-insensitively, so "y" and "Y"
\* run the command; every other answer ("n", empty, "yes") returns exactly
\* 'User denied command execution.' and the shell is not invoked.
C9_CaseInsensitiveYRuns == promptDecides(YesAnswers)

\* the answer "Y" ran the command
C9_Witness ==
    /\ ~autoApproveCommands /\ ~dryRun /\ lastIsCommand
    /\ prompted(calls) /\ answerOf(calls) = <<"Y">>
    /\ shellRan(calls)

\* the effects that change the workspace or run a shell command: a file
\* written (write_file, edit_file), a directory created, git add, commit or
\* stash, a command handed to the shell
sideEffects ==
    {i \in 1..Len(effects) :
        \/ effects[i].kind \in {"write", "mkdir", "git"}
        \/ effects[i].kind = "shell" /\ effects[i].tag = "exec"}

\* the approval policy approved the call of effect i: auto-approval is on, or
\* the prompt of that call was answered yes before the effect
approvedBefore(i) ==
    \/ autoApproveCommands
    \/ \E j \in 1..(i - 1) :
            /\ effects[j].kind = "prompt"
            /\ effects[j].callNo = effects[i].callNo
            /\ effects[j].text \in YesAnswers

\* C25: no side-effecting tool call (file write, exact-text edit, directory
\* creation, git add, commit or stash, shell command) takes effect unless
\* the approval policy approved that call.
C25_SideEffectsOnlyWhenApproved == \A i \in sideEffects : approvedBefore(i)

\* the last call repeats the call before it, and the file system and git
\* answered both in the same way
repeatedCall ==
    /\ calls >= 2
    /\ last.call.function.name \in ReadOnlyNames
    /\ last.before.call = last.call
    /\ last.before.io = last.io

ranUnprompted ==
    {i \in 1..Len(effects) :
        /\ effects[i].kind = "shell" /\ effects[i].tag = "exec"
        /\ ~\E j \in 1..(i - 1) :
                effects[j].kind = "prompt" /\ effects[j].callNo = effects[i].callNo}

\* C34: with auto-approve on and a non-empty allowlist, no program outside
\* the allowlist is executed through run_command without interactive
\* approval, whatever the command string: also when an allowlisted first
\* token is followed by further chained commands.
C34_OnlyAllowlistedProgramsRun ==
    (autoApproveCommands /\ allowlistCommands # {}) =>
        \A i \in ranUnprompted :
            \A program \in programsRun(effects[i].text) :
                toLowerCase(program) \in allowlistCommands

\* the audit records that call n appended or tried to append
auditRecords(n) == {i \in effectsOf(n) : effects[i].kind = "audit"}

\* C26: with an audit sink configured, every execute call emits exactly one
\* audit record, on every path: success, a failure thrown by the effect or
\* the plugin handler, dry-run, unknown tool and undecodable arguments.
C26_OneAuditRecordPerCall ==
    auditPath => \A n \in 1..calls : Cardinality(auditRecords(n)) = 1

\* the tool names and aliases of the built-in tools
NativeNames ==
    {"write_file", "create_file", "file_write", "read_file", "file_read", "list_files",
     "ls", "run_command", "shell", "bash", "git_status", "git_diff", "git_add",
     "git_commit", "git_stash", "grep_search", "search", "grep", "edit_file",
     "patch_file", "create_directory", "mkdir"}

UnknownMsg == "Unknown tool: ${name}"
HandlerMsg == "${handler output}"

\* the plugin handlers that call n invoked
handlerRuns(n) == {i \in effectsOf(n) : effects[i].kind = "handler"}

\* the latest call reached the name resolution
lastResolvedName ==
    calls > 0 /\ ~dryRun /\ last.call.function.arguments.json # "invalid"

\* C27: a built-in name or alias is always served by the built-in, also when
\* a plugin handler is registered under that name; a plugin handler runs only
\* for a name that is not built-in and equals a registered name exactly; any
\* other name returns 'Unknown tool: <name>' and has no effect.
C27_BuiltinsBeforePlugins ==
    lastResolvedName =>
        LET name == last.call.function.name
        IN  /\ name \in NativeNames =>
                /\ handlerRuns(calls) = {}
                /\ last.result.content.msg \notin {UnknownMsg, HandlerMsg}
            /\ (name \notin NativeNames /\ name \in pluginHandlers) =>
                /\ Cardinality(handlerRuns(calls)) = 1
                /\ \A i \in handlerRuns(calls) : effects[i].tag = name
            /\ (name \notin NativeNames /\ name \notin pluginHandlers) =>
                /\ last.settled = "resolved"
                /\ last.result.content = Msg(UnknownMsg)
                /\ last.result.name = name
                /\ files = last.filesBefore
                /\ \A i \in effectsOf(calls) : effects[i].kind = "audit"

\* a plugin is registered as read_file, and read_file returned the file
C27_Witness ==
    /\ lastResolvedName
    /\ "read_file" \in pluginHandlers
    /\ last.call.function.name = "read_file"
    /\ last.result.content = MsgText("${content}", <<"a", "b", "a">>)
    /\ handlerRuns(calls) = {}

----------------------------------------------------------------------------
(* Properties of edit_file, checked under SpecEdit *)

\* every non-overlapping occurrence of t in s, left to right, replaced by u
RECURSIVE ReplaceAll(_, _, _)
ReplaceAll(s, t, u) ==
    LET i == indexOfFrom(s, t, 1)
    IN  IF i = 0 THEN s
        ELSE SubSeq(s, 1, i - 1) \o u \o ReplaceAll(SubSeq(s, i + Len(t), Len(s)), t, u)

RECURSIVE CountOccurrences(_, _)
CountOccurrences(s, t) ==
    LET i == indexOfFrom(s, t, 1)
    IN  IF i = 0 THEN 0
        ELSE 1 + CountOccurrences(SubSeq(s, i + Len(t), Len(s)), t)

EditedMsg == "Successfully edited ${filePath}. Replaced ${occurrences} occurrence(s)."

\* the text holds no "$", so String.prototype.replace takes it literally
isLiteral(u) == \A i \in 1..Len(u) : u[i] # "$"

\* C10: a successful edit_file writes the content with every occurrence of
\* old_text replaced by new_text and reports the number of occurrences
\* (stated for a non-empty old_text and a new_text without "$").
C10_EditReplacesEveryOccurrence ==
    (calls > 0 /\ last.result.content.msg = EditedMsg
        /\ last.call.function.arguments.old_text[1] # <<>>
        /\ isLiteral(last.call.function.arguments.new_text[1])) =>
        LET a == last.call.function.arguments
            before == last.filesBefore[a.path[1]][1]
        IN  /\ files[a.path[1]] = Some(ReplaceAll(before, a.old_text[1], a.new_text[1]))
            /\ last.result.content.n = CountOccurrences(before, a.old_text[1])

NotFoundMsg ==
    "Error: Could not find the specified text in ${filePath}. Make sure to use exact matching text."

EditErrorMsg == "Error editing file: ${e.message}"

\* t occurs in s as a contiguous run of characters
occursIn(s, t) == \E i \in 1..(Len(s) - Len(t) + 1) : SubSeq(s, i, i + Len(t) - 1) = t

\* the latest call asked to edit an existing file that does not hold old_text
editMisses ==
    /\ calls > 0
    /\ last.call.function.name \in EditNames
    /\ LET a == last.call.function.arguments
       IN  /\ last.filesBefore[a.path[1]] # None
           /\ ~occursIn(last.filesBefore[a.path[1]][1], a.old_text[1])

\* C30: edit_file on a file that does not contain old_text returns an error
\* text (the text was not found, or the file could not be read) and leaves
\* the file as it was: nothing is written.
C30_EditMissLeavesFile ==
    editMisses =>
        /\ last.settled = "resolved"
        /\ last.result.content.msg \in {NotFoundMsg, EditErrorMsg}
        /\ files = last.filesBefore
        /\ \A i \in effectsOf(calls) : effects[i].kind # "write"

\* old_text "ba" is not in the file "ab": the call answered that the text was
\* not found and the file still reads "ab"
C30_Witness ==
    /\ editMisses
    /\ last.call.function.arguments.old_text[1] = <<"b", "a">>
    /\ last.filesBefore["f"] = Some(<<"a", "b">>)
    /\ last.result.content.msg = NotFoundMsg
    /\ files["f"] = Some(<<"a", "b">>)

----------------------------------------------------------------------------
(* Properties of LLMClient.chat, checked under SpecClient *)

\* the failures the retry policy names: abort or timeout, connection reset,
\* connection failure, any 5xx status
namedRetryable(o) ==
    \/ o.kind \in {"abort", "reset", "timedout", "connfail"}
    \/ o.kind = "http" /\ o.status[1] = "5"

\* C5: at most N+1 attempts; a further attempt only after an abort/timeout,
\* connection reset, connection failure or 5xx; a success returns that
\* attempt's message; N+1 such failures make the call throw.
C5_RetryOnlyAfterNamedFailures ==
    /\ Len(attemptLog) <= maxRetries + 1
    /\ \A k \in 1..(Len(attemptLog) - 1) : namedRetryable(attemptLog[k].outcome)
    /\ \A k \in 1..Len(attemptLog) :
         attemptLog[k].outcome.kind = "ok" =>
            /\ k = Len(attemptLog)
            /\ clientPc = "returned"
            /\ clientResult.message = attemptLog[k].outcome.message
    /\ (/\ Len(attemptLog) = maxRetries + 1
        /\ \A k \in 1..Len(attemptLog) : namedRetryable(attemptLog[k].outcome)) =>
            clientPc = "threw"

\* C6: a 4xx status, whatever its body says, or an error that is neither an
\* abort nor a connectivity error, makes chat throw at once: no wait and no
\* further attempt follow it.
C6_NonRetryableThrowsAtOnce ==
    \A k \in 1..Len(attemptLog) :
        (/\ attemptLog[k].outcome.kind \notin {"ok", "stalled"}
         /\ ~namedRetryable(attemptLog[k].outcome)) =>
            /\ k = Len(attemptLog)
            /\ clientPc = "threw"
            /\ \A w \in 1..Len(waits) : waits[w].after # attemptLog[k].attempt

----------------------------------------------------------------------------
(* Properties of Agent.chat, checked under SpecAgent *)

\* the nearest assistant message before position i, 0 when there is none
precedingAssistant(i) ==
    LET S == {j \in 1..(i - 1) : history[j].role = "assistant"}
    IN  IF S = {} THEN 0 ELSE CHOOSE j \in S : \A k \in S : k <= j

\* the tool calls of the assistant message at a are no longer being dispatched
dispatchOver(a) ==
    agentPc # "tools" \/ \E j \in (a + 1)..Len(history) : history[j].role # "tool"

\* C1: after an assistant message with tool calls c1..cn come exactly n tool
\* messages, the i-th tagged with the id of ci as the assistant message
\* carries it; so every tool message's tool_call_id is an id of the nearest
\* preceding assistant message's tool_calls.
C1_ToolMessagesMatchToolCalls ==
    /\ \A i \in 1..Len(history) :
         history[i].role = "tool" =>
            LET a == precedingAssistant(i)
            IN  /\ a > 0
                /\ hasToolCalls(history[a])
                /\ i - a <= Len(history[a].tool_calls[1])
                /\ history[i].tool_call_id = history[a].tool_calls[1][i - a].id
    /\ \A a \in 1..Len(history) :
         (history[a].role = "assistant" /\ hasToolCalls(history[a]) /\ dispatchOver(a)) =>
            \A k \in 1..Len(history[a].tool_calls[1]) :
                a + k <= Len(history) /\ history[a + k].role = "tool"

\* the assistant messages of the current turn
turnResponses == {i \in (turnStart + 1)..Len(history) : history[i].role = "assistant"}

\* C4: when every response of a turn requests tools, chat makes exactly 10
\* transport requests, then resolves with no value, and the last message of
\* the history is a tool result.
C4_StepBoundEndsTurn ==
    (/\ agentPc = "idle" /\ chatResult.kind # "pending"
     /\ chatResult.cause # "transport"
     /\ turnResponses # {}
     /\ \A i \in turnResponses : hasToolCalls(history[i])) =>
        /\ requests = 10
        /\ chatResult.kind = "returned"
        /\ chatResult.value = None
        /\ history[Len(history)].role = "tool"

\* the assistant message at a has all its tool results right after it, in
\* the order of its tool calls
resultsComplete(a) ==
    \A k \in 1..Len(history[a].tool_calls[1]) :
        /\ a + k <= Len(history)
        /\ history[a + k].role = "tool"
        /\ history[a + k].name = Some(history[a].tool_calls[1][k].function.name)

\* the position of the assistant message whose tool calls are being dispatched
currentResponseAt ==
    CHOOSE i \in 1..Len(history) :
        /\ history[i].role = "assistant"
        /\ \A j \in (i + 1)..Len(history) : history[j].role = "tool"

\* C12: within one chat call the tool calls of a step run one at a time in
\* issuance order: while call i is the next to execute, exactly the results
\* of calls 1..i-1 follow the assistant message, in that order, and the
\* latest execution is that of call i-1; while a transport request is in
\* flight, every earlier assistant message of the turn has all its results.
C12_ToolCallsRunInOrder ==
    /\ agentPc = "tools" =>
         LET a == currentResponseAt
             toolCalls == history[a].tool_calls[1]
         IN  /\ toolIdx \in 1..Len(toolCalls)
             /\ Len(history) = a + toolIdx - 1
             /\ \A k \in 1..(toolIdx - 1) :
                    history[a + k].name = Some(toolCalls[k].function.name)
             /\ toolIdx > 1 =>
                    /\ last.call = toolCalls[toolIdx - 1]
                    /\ history[Len(history)] = ToolMessage(last.result)
    /\ agentPc = "awaitLLM" =>
         \A a \in turnStart..Len(history) :
            (history[a].role = "assistant" /\ hasToolCalls(history[a])) => resultsComplete(a)

\* a step of two tool calls has run its first call and not yet its second
C12_Witness ==
    /\ agentPc = "tools" /\ toolIdx = 2
    /\ currentStep >= 2
    /\ Len(currentResponse.tool_calls[1]) = 2

\* a step of the model only appends to the history
appendOnly ==
    /\ Len(history') >= Len(history)
    /\ SubSeq(history', 1, Len(history)) = history

\* a chat call that threw left every assistant message with its tool results
failedTurnComplete ==
    (agentPc = "idle" /\ chatResult.kind = "threw") =>
        \A a \in 1..Len(history) :
            (history[a].role = "assistant" /\ hasToolCalls(history[a])) => resultsComplete(a)

\* C14: during a turn the history only grows at its end: no message is
\* removed, reordered or modified, however the chat call ends; and a chat
\* call that throws leaves no assistant message with tool calls that lacks
\* its tool results.
C14_HistoryAppendOnly == [][appendOnly]_vars /\ []failedTurnComplete

\* C15: a tool failure inside a turn never ends the chat call: every
\* execute of the turn resolves, its text is the tool message appended for
\* the call, and chat goes on to the next call or the next request.
C15_ToolFailureKeepsLoop ==
    /\ chatResult.cause # "tool"
    /\ (agentPc \in {"tools", "awaitLLM"} /\ last.settled # "none") =>
         /\ last.settled = "resolved"
         /\ \E i \in turnStart..Len(history) : history[i] = ToolMessage(last.result)

\* an attempt the watchdog aborted is retried while attempts remain
abortRetried ==
    \A k \in 1..Len(attemptLog) :
        (attemptLog[k].outcome.kind = "abort" /\ attemptLog[k].attempt < maxRetries) =>
            \E w \in 1..Len(waits) : waits[w].after = attemptLog[k].attempt

\* C16: every attempt is bounded by the watchdog: whatever the endpoint
\* does, an attempt that has started ends (in a return, a throw or the wait
\* before the next attempt), an aborted attempt is retried while attempts
\* remain, and the whole call eventually returns or throws.
C16_WatchdogBoundsEveryAttempt ==
    /\ []abortRetried
    /\ (clientPc = "fetching") ~> (clientPc \in {"backoff", "returned", "threw"})
    /\ (clientPc = "fetching") ~> (clientPc \in {"returned", "threw"})

\* min(1000 * 2^a, 10000), written out
expectedWait(a) ==
    CASE a = 0 -> 1000 [] a = 1 -> 2000 [] a = 2 -> 4000 [] a = 3 -> 8000
      [] OTHER -> 10000

\* C17: the wait after the failed attempt a is 1000, 2000, 4000, 8000 ms for
\* a = 0..3 and 10000 ms for every later attempt; the waits of a call follow
\* attempts 0, 1, 2, ... in turn, never decrease, never exceed 10000, and no
\* wait follows the last allowed attempt.
C17_BackoffWaits ==
    /\ \A i \in 1..Len(waits) :
         /\ waits[i].after = i - 1
         /\ waits[i].ms = expectedWait(i - 1)
         /\ waits[i].ms <= 10000
         /\ waits[i].after < maxRetries
    /\ \A i \in 1..(Len(waits) - 1) : waits[i].ms <= waits[i + 1].ms
    /\ Len(waits) <= Len(attemptLog)
    /\ clientPc \in {"returned", "threw"} => Len(waits) = Len(attemptLog) - 1

\* five failed attempts were each followed by a wait, the last of 10000 ms,
\* and the call threw after its last allowed attempt
C17_Witness ==
    /\ clientPc = "threw"
    /\ Len(waits) = 5 /\ waits[4].ms = 8000 /\ waits[5].ms = 10000
    /\ Len(attemptLog) = maxRetries + 1

----------------------------------------------------------------------------
(* Properties of parseStreamResponse, checked under SpecStream *)

\* the lines of the stream that are followed by a line break
RECURSIVE completeLines(_)
completeLines(w) ==
    LET ends == {i \in 1..Len(w) : w[i] = NL}
    IN  IF ends = {} THEN <<>>
        ELSE LET i == CHOOSE i \in ends : \A j \in ends : i <= j
             IN  <<SubSeq(w, 1, i - 1)>> \o completeLines(SubSeq(w, i + 1, Len(w)))

AllPayloads == ContentPayloads \cup ToolPayloads \cup {NoDelta}

\* the payloads of the event lines among ls, in order
RECURSIVE eventsOf(_)
eventsOf(ls) ==
    IF ls = <<>> THEN <<>>
    ELSE (IF \E q \in AllPayloads : Head(ls) = EventLine(q)
          THEN <<CHOOSE q \in AllPayloads : Head(ls) = EventLine(q)>>
          ELSE <<>>) \o eventsOf(Tail(ls))

\* the events the endpoint sent as complete lines
sentEvents == eventsOf(completeLines(wire))

\* the non-empty content fragments of the events, in order
RECURSIVE contentFragments(_)
contentFragments(events) ==
    IF events = <<>> THEN <<>>
    ELSE (IF Head(events).content # None /\ Head(events).content[1] # <<>>
          THEN <<Head(events).content[1]>> ELSE <<>>) \o contentFragments(Tail(events))

\* C18: the chunk sink is called once per non-empty content delta, with
\* exactly that fragment and in arrival order, and the content of the
\* returned message is the concatenation of the fragments, or null when
\* there is none.
C18_SinkGetsEveryContentDelta ==
    streamPc = "resolved" =>
        LET fragments == contentFragments(sentEvents)
        IN  /\ sink = fragments
            /\ streamResult.content =
                  (IF concat(fragments) = <<>> THEN None ELSE Some(concat(fragments)))

\* the tool-call deltas of the events, in arrival order
RECURSIVE toolDeltas(_)
toolDeltas(events) ==
    IF events = <<>> THEN <<>>
    ELSE (IF Head(events).tool_calls = None THEN <<>> ELSE Head(events).tool_calls[1])
            \o toolDeltas(Tail(events))

sentToolDeltas == toolDeltas(sentEvents)

\* the positional index of a delta; a delta without one counts for index 0
indexOf(tc) == IF tc.index = None THEN 0 ELSE tc.index[1]

sentIndices == {indexOf(sentToolDeltas[i]) : i \in 1..Len(sentToolDeltas)}

\* the argument fragments sent for index k, joined in arrival order
RECURSIVE argumentsFor(_, _)
argumentsFor(k, tcs) ==
    IF tcs = <<>> THEN <<>>
    ELSE (IF indexOf(Head(tcs)) = k /\ Head(tcs).arguments # None
          THEN Head(tcs).arguments[1] ELSE <<>>) \o argumentsFor(k, Tail(tcs))

\* the place of index k in a list ordered by index
rank(k) == Cardinality({j \in sentIndices : j <= k})

deltasOf(k) == {i \in 1..Len(sentToolDeltas) : indexOf(sentToolDeltas[i]) = k}

\* C19: for any interleaving of tool-call deltas over several indices, the
\* arguments of the call emitted for an index are the argument fragments sent
\* for that index, joined in arrival order, and its id and function name are
\* the ones sent for that index.
C19_ArgumentsReassembledPerIndex ==
    streamPc = "resolved" =>
        \A k \in sentIndices :
            /\ streamResult.tool_calls # None
            /\ rank(k) <= Len(streamResult.tool_calls[1])
            /\ LET emitted == streamResult.tool_calls[1][rank(k)]
               IN  /\ emitted.function.arguments = argumentsFor(k, sentToolDeltas)
                   /\ \A i \in deltasOf(k) :
                        /\ truthy(sentToolDeltas[i].id) => emitted.id = sentToolDeltas[i].id
                        /\ truthy(sentToolDeltas[i].name) =>
                              emitted.function.name = sentToolDeltas[i].name[1]

\* the id sent for index k, if any
idFor(k) ==
    LET S == {i \in deltasOf(k) : truthy(sentToolDeltas[i].id)}
    IN  IF S = {} THEN None ELSE sentToolDeltas[CHOOSE i \in S : TRUE].id

\* the function name sent for index k, "unknown" when none was sent
nameFor(k) ==
    LET S == {i \in deltasOf(k) : truthy(sentToolDeltas[i].name)}
    IN  IF S = {} THEN "unknown" ELSE sentToolDeltas[CHOOSE i \in S : TRUE].name[1]

\* C20: at stream end the message has a tool_calls array exactly when some
\* index received tool-call data; the array has one entry per distinct index,
\* in ascending index order whatever the arrival order, and an entry whose
\* function name was never sent is named "unknown".
C20_ToolCallsInIndexOrder ==
    streamPc = "resolved" =>
        /\ (streamResult.tool_calls # None) <=> (sentIndices # {})
        /\ sentIndices # {} =>
             /\ Len(streamResult.tool_calls[1]) = Cardinality(sentIndices)
             /\ \A k \in sentIndices :
                  LET emitted == streamResult.tool_calls[1][rank(k)]
                  IN  /\ emitted.id = idFor(k)
                      /\ emitted.function.name = nameFor(k)

\* index 1 arrived before index 0, and the message lists the call of index 0
\* first and names the call of index 1 "unknown"
C20_Witness ==
    /\ streamPc = "resolved"
    /\ Len(sentToolDeltas) >= 2
    /\ indexOf(sentToolDeltas[1]) = 1
    /\ sentIndices = {0, 1}
    /\ idFor(0) = Some("a") /\ idFor(1) = Some("b")
    /\ streamResult.tool_calls[1][1].id = Some("a")
    /\ streamResult.tool_calls[1][1].function.name = "read_file"
    /\ streamResult.tool_calls[1][2].function.name = "unknown"

\* a malformed line, followed by its line break, stands between two events
malformedBetweenEvents ==
    \E m \in {<<Junk>>, <<Marker, Junk>>} :
        wire = joinLines(<<EventLine(Delta(Some(<<"H">>), None)), m,
                           EventLine(Delta(None, Some(<<TcDelta(Some(0), Some("a"),
                                Some("read_file"), Some(<<"{">>))>>)))>>, TRUE)

\* C21: lines without the event marker and marked lines whose payload is not
\* JSON, at any place of the stream, change neither the calls of the chunk
\* sink nor the returned message: both are those of the same stream without
\* these lines, after every chunk and when the parse resolves.
C21_MalformedLinesChangeNothing ==
    /\ sink = plain.sink
    /\ streamContent = plain.content
    /\ toolCallsAccum = plain.accum
    /\ streamPc = "resolved" => streamResult = streamMessage(plain.content, plain.accum)

\* the parse of a stream with a malformed line between two events resolved,
\* with the content of the first event and the tool call of the second
C21_Witness ==
    /\ streamPc = "resolved"
    /\ malformedBetweenEvents
    /\ sink = <<(<<"H">>)>>
    /\ streamResult.content = Some(<<"H">>)
    /\ streamResult.tool_calls # None
    /\ plain.buffer = <<>>

\* the parser's state when the whole stream arrives as one chunk
wholeParse == onData(NoPlain, wire)

\* C22: the result of a streaming parse depends only on the bytes of the
\* stream, not on where they are cut into chunks: the calls of the chunk sink
\* and the returned message are those of the stream arriving as one chunk.
C22_ChunkCutsDoNotMatter ==
    streamPc = "resolved" =>
        /\ sink = wholeParse.sink
        /\ streamResult = streamMessage(wholeParse.content, wholeParse.accum)

\* the parser's state had the fragment still in the buffer been a line
withBufferedLine ==
    processLine([content |-> streamContent, accum |-> toolCallsAccum, sink |-> sink], buffer)

\* C36: every event line received before the stream ends contributes to the
\* result, the last line of a stream without a final line break included:
\* when the parse resolves, handling the fragment left in the buffer as a
\* line would add nothing to the sink calls or to the returned message.
C36_LastLineIsProcessed ==
    streamPc = "resolved" =>
        /\ sink = withBufferedLine.sink
        /\ streamResult = streamMessage(withBufferedLine.content, withBufferedLine.accum)

----------------------------------------------------------------------------
(* Properties of streaming chat, checked under SpecChatStream *)

\* the stream of the step has ended and chat has appended its message: the
\* assistant message whose tool calls are dispatched is the assembled one
responseAppended ==
    /\ streamPc = "consumed"
    /\ \E i \in 1..Len(history) :
        /\ history[i] = streamedResponse(streamResult)
        /\ \A j \in (i + 1)..Len(history) : history[j].role = "tool"

\* C23: in streaming mode every call of the chunk sink for a step's response
\* happens while chat awaits that response, before any tool of the step runs
\* and before the next request: a tool runs and a further request is issued
\* only after the stream has ended and the assembled message is in the history.
C23_SinkBeforeToolsAndNextRequest ==
    /\ [][sink' # sink =>
            /\ agentPc = "awaitLLM" /\ agentPc' = "awaitLLM"
            /\ streamPc = "open"
            /\ UNCHANGED <<history, calls, effects, requests>>]_vars
    /\ [][(calls' # calls \/ (requests' # requests /\ currentStep' > 1)) =>
            responseAppended]_vars
    /\ [](agentPc = "tools" => responseAppended)

\* the tool of a step ran after the four content and tool-call deltas of the
\* step's stream, two of them content handed to the sink
C23_Witness ==
    /\ calls = 1
    /\ agentPc = "awaitLLM" /\ currentStep = 2
    /\ sink = <<(<<"H">>), (<<"H">>)>>
    /\ Len(history) = 4
    /\ history[3].tool_calls # None
    /\ history[3].content = Some(MsgText("${content}", <<"H", "H">>))
    /\ history[4].role = "tool"

\* the first llm.chat call of the first turn is about to return: every sink
\* call so far was made during this call
firstCallResolved ==
    /\ Len(history) = 2 /\ currentStep = 1
    /\ agentPc = "awaitLLM" /\ streamPc = "resolved"

\* C35: for one streamed llm.chat call that returns a message, the fragments
\* handed to the chunk sink during the call, concatenated, are the content
\* of the returned message, also when a stream broke part-way with a
\* retryable error and the request was retried.
C35_SinkEqualsReturnedContent ==
    firstCallResolved =>
        streamResult.content = (IF concat(sink) = <<>> THEN None ELSE Some(concat(sink)))

----------------------------------------------------------------------------
(* Properties of grep_search, checked under SpecGrep *)

\* the names on the way from the searched directory to the reported file
belowSearchPath(r) == SubSeq(r.path, Len(grep.searchPath) + 1, Len(r.path))

\* a name that begins with '.' or is node_modules or dist
excludedName(name) ==
    \/ Head(name) = "."
    \/ name = <<"node_modules">>
    \/ name = <<"dist">>

\* C29: grep_search reports at most 50 matches in total, and a search of a
\* directory reports no match from an entry of it whose name begins with '.'
\* or is node_modules or dist, nor from anything below such an entry.
C29_GrepCapAndSkips ==
    grep.pc = "returned" =>
        /\ Len(grep.output.results) <= 50
        /\ lookup(grep.tree, grep.searchPath).kind = "dir" =>
             \A i \in 1..Len(grep.output.results) :
                LET names == belowSearchPath(grep.output.results[i])
                IN  \A k \in 1..Len(names) : ~excludedName(names[k])

\* a recursive search of the workspace, whose files hold 60 matching lines
\* besides those in hidden entries, node_modules and dist, returned 50
\* matches, all from a.ts and src/b.ts
C29_Witness ==
    /\ grep.pc = "returned"
    /\ grep.searchPath = <<>> /\ grep.recursive
    /\ lookup(grep.tree, <<(<<"a.ts">>)>>).lines = manyLines(ManyLines)
    /\ lookup(grep.tree, <<(<<"src">>), (<<"b.ts">>)>>).lines = manyLines(ManyLines)
    /\ lookup(grep.tree, <<(<<"node_modules">>), (<<"pkg">>), (<<"m.js">>)>>).kind = "file"
    /\ Len(grep.output.results) = 50
    /\ grep.output.limited
    /\ \A i \in 1..50 :
            grep.output.results[i].path \in {<<(<<"a.ts">>)>>, <<(<<"src">>), (<<"b.ts">>)>>}

\* C40: grep_search called with a pattern that is not a valid regular
\* expression returns an error text; it does not report that no matches were
\* found.
C40_InvalidPatternIsAnError ==
    (grep.pc = "returned" /\ ~validRegExp(grep.pattern)) =>
        grep.output.kind = "error"

----------------------------------------------------------------------------
(* Properties of a step without tool calls, checked under SpecAgent *)

\* the latest message of the history is an assistant message without tool
\* calls: the field is absent or the list is empty
noToolCallsLast ==
    /\ Len(history) >= 1
    /\ history[Len(history)].role = "assistant"
    /\ \/ history[Len(history)].tool_calls = None
       \/ history[Len(history)].tool_calls[1] = <<>>

\* the assistant messages of the current turn
turnAssistants == {i \in (turnStart + 1)..Len(history) : history[i].role = "assistant"}

\* the step ended the turn: chat returned v, nothing is awaited, and every
\* request of the turn is answered by an assistant message of the history
turnEndedWith(v) ==
    /\ agentPc = "idle"
    /\ toolIdx = 0
    /\ chatResult.kind = "returned"
    /\ chatResult.value = Some(v)
    /\ requests = Cardinality(turnAssistants)

\* C28 as claimed: a step whose assistant message has no tool calls makes
\* chat return that message's content, whatever it is, and ends the turn.
C28_ReturnsTheContent ==
    noToolCallsLast =>
        /\ history[Len(history)].content # None
        /\ turnEndedWith(history[Len(history)].content[1])

\* C28 as amended: a step whose assistant message has no tool calls makes
\* chat return that message's content, or the empty string when the content
\* is null; the turn ends: no tool is executed and no further request is made.
C28_ReturnsContentOrEmpty ==
    noToolCallsLast =>
        turnEndedWith(IF history[Len(history)].content = None THEN Msg("")
                      ELSE history[Len(history)].content[1])

\* a message with an empty tool_calls list and null content ended the turn,
\* and chat returned the empty string
C28_Witness ==
    /\ noToolCallsLast
    /\ history[Len(history)].tool_calls = Some(<<>>)
    /\ history[Len(history)].content = None
    /\ chatResult.kind = "returned" /\ chatResult.value = Some(Msg(""))
    /\ agentPc = "idle"

----------------------------------------------------------------------------
(* Properties of the REPL, checked under SpecRepl *)

\* C24: after any sequence of Agent operations (construction, chat,
\* addToContext, clearHistory, setHistory with a loaded session) the history
\* is not empty and its first element is a system message.
C24_HistoryStartsWithSystem ==
    /\ Len(history) >= 1
    /\ history[1].role = "system"


\* the user messages that carry the text x
userMessages(h, x) ==
    {i \in 1..Len(h) : h[i].role = "user" /\ h[i].content = Some(Msg(x))}

\* /retry calls chat for the input x of a turn that failed, and the user
\* message of that turn is still in the history
retriesFailed(x) ==
    /\ lastInputFailed
    /\ lastUserInput = Some(x)
    /\ userMessages(history, x) # {}
    /\ \E t \in DOMAIN tasks :
        tasks[t].pc = "free" /\ tasks'[t].pc = "awaitLLM" /\ tasks'[t].via = "retry"

\* C11: when chat(x) failed on the transport and /retry calls chat(x)
\* again, the retry resubmits the user message the history already holds:
\* the history has as many user messages for x after the retry started as
\* before, one for the failed turn.
C11_RetryDoesNotDuplicate ==
    [][\A x \in UserInputs :
        retriesFailed(x) =>
            Cardinality(userMessages(history', x)) = Cardinality(userMessages(history, x))]_vars

\* the chat calls that await the transport or a tool
inFlight == {t \in DOMAIN tasks : tasks[t].pc \in {"awaitLLM", "awaitTool"}}

\* C13: for one Agent never two transport requests or tool executions are
\* in flight together, and the messages one chat turn appends are never
\* separated by messages of another turn or of a command, whatever lines
\* arrive while a chat call is pending.
C13_OneOperationAtATime ==
    /\ Cardinality(inFlight) <= 1
    /\ \A i, j, k \in 1..Len(owner) :
         (i < j /\ j < k /\ owner[i] # 0 /\ owner[i] = owner[k]) => owner[j] = owner[i]

----------------------------------------------------------------------------
(* Properties of /agent and runSubAgent, checked under SpecSub *)

\* the commands handed to the shell by run_command
shellRuns == {i \in 1..Len(effects) : effects[i].kind = "shell" /\ effects[i].tag = "exec"}

\* C37: the safety settings of the process bind every tool dispatcher made
\* in it: started with --dry-run, no tool call of the main agent or of a
\* /agent sub-agent applies an effect; started with --yes and --allow, a
\* shell command of a sub-agent runs only when its base command is in the
\* allowlist, as for the main agent.
C37_SettingsBindEveryDispatcher ==
    /\ sub.options.dryRun => sideEffects = {}
    /\ (sub.options.autoApprove /\ sub.options.allowCommands # <<>>) =>
            \A i \in shellRuns :
                cmdBase(effects[i].text) \in allowlistSet(sub.options.allowCommands)

\* C38: a sub-agent executes only tools named in its own tools list: a tool
\* call of a response whose name is outside agent.tools is not executed.
C38_OnlyListedToolsExecuted ==
    \A i \in 1..Len(sub.executed) : sub.executed[i] \in sub.agent.tools

\* the requests that were sent with tool definitions
toolEnabledRequests == {i \in 1..Len(sub.requests) : sub.requests[i].tools # {}}

summaryRequests == {i \in 1..Len(sub.requests) : sub.requests[i].kind = "summary"}

\* what runSubAgent returns after the summary request
SummaryResults ==
    {"${summary.content}", "Agent completed without summary.",
     "Agent completed but failed to summarize: ${error.message}"}

\* C39: runSubAgent ends with a string and never rejects: at most maxSteps
\* requests are sent with tools enabled; when the model still asked for
\* tools at step maxSteps exactly one summary request follows, and none
\* otherwise; a failed request ends the run with an error text.
C39_BoundedRequestsThenSummary ==
    /\ Cardinality(toolEnabledRequests) <= sub.agent.maxSteps
    /\ Cardinality(summaryRequests) =
            (IF sub.pc = "awaitSummary" \/ sub.result \in SummaryResults THEN 1 ELSE 0)
    /\ sub.pc = "returned" => sub.result # ""

----------------------------------------------------------------------------
(* Properties of session persistence, checked under SpecSession *)

\* C31: a history saved with /save and loaded again with loadSession is a
\* message list equal to the one saved, whatever the Agent held (messages
\* with null content, tool_calls, tool_call_id and name included), and after
\* setHistory getHistory returns that list.
C31_SaveThenLoadIsTheSavedList ==
    (session.command = "load" /\ session.saved # None) =>
        /\ session.outcome = "loaded"
        /\ history = session.saved[1]

\* the history was saved in the middle of a tool step (an assistant message
\* with null content and a tool call, then the tool result), the turn went
\* on, and /load brought the saved list back
C31_Witness ==
    /\ session.command = "load" /\ session.outcome = "loaded"
    /\ session.saved = Some(SubSeq(FullHistory, 1, 4))
    /\ history = SubSeq(FullHistory, 1, 4)
    /\ session.before = FullHistory

\* the session file is missing, is no JSON text or holds no array
badSessionFile == session.kind \in {"missing", "invalid", "nonarray"}

\* C32: loadSession throws on a missing file, on a text that is not valid
\* JSON and on a value that is not an array; /load then leaves the Agent's
\* history as it was, and the --session start ends the process instead of
\* going on with a history.
C32_BadSessionIsRaisedAtLoad ==
    /\ badSessionFile => loadSession(session.file).threw # ""
    /\ (session.command = "load" /\ badSessionFile) =>
            /\ session.outcome = "failed"
            /\ history = session.before
    /\ (session.command = "startup" /\ session.sessionPath /\ badSessionFile) =>
            /\ session.pc = "exited"
            /\ history = session.before

\* after a chat turn /load met a file that holds a JSON value that is no
\* array, failed, and the history of two messages and more is still there
C32_Witness ==
    /\ session.command = "load" /\ session.kind = "nonarray"
    /\ session.outcome = "failed"
    /\ Len(history) >= 2
    /\ history = session.before

====
